---- MODULE Spec2Model ----
\* Credential & request-lifecycle subsystem of the gsuite MCP server:
\*   - GoogleOAuthClient (src/src/oauth/google-oauth-client.ts) and TokenManager
\*     (src/src/oauth/token-manager.ts): the credential manager and its secret store;
\*   - the tools/call handler and the cancellation handler (src/src/index.ts), the
\*     tool adapter (src/src/tools/google-gmail-tools.ts) and the API client
\*     (src/unnamed/part_001, GoogleGmailClient).
\* Every async function is cut at its awaits: one action runs from one await to
\* the next. Time is counted in minutes.
EXTENDS Integers, Sequences, FiniteSets, TLC

\* ---------------------------------------------------------------- bounds
\* The clock is read at most MaxTicks times later than the start.
MaxTicks == 2
\* The authorization server answers at most MaxIssued token requests with tokens.
MaxIssued == 2
\* One getValidAccessToken() call starts at most MaxFlows authorization flows.
MaxFlows == 2

\* Concurrent executions of getValidAccessToken(); execution i also serves as the
\* token acquisition of tool invocation i.
Callers == {1, 2}

\* Lifetimes (minutes) the authorization server gives the tokens it issues.
Lifetimes == {6}

\* Minutes between two readings of the clock.
TickSteps == {5}

MaxNow == MaxTicks * 5

\* ---------------------------------------------------------------- constants
\* google-oauth-client.ts:135  const buffer = 5 * 60 * 1000 (5 minutes)
buffer == 5
\* google-oauth-client.ts:193  setTimeout(..., 5 * 60 * 1000) (5 minutes)
authTimeout == 5

VARIABLES
  now,           \* Date.now(), in minutes
  keychainUp,    \* whether the platform keychain (keytar) works right now
  tokenFile,     \* ~/.mcp/<provider>-tokens/default.json: <<>> or <<record>>
  keychainEntry, \* keychain password mcp-oauth-tokens/<provider>-default: <<>> or <<tokens>>
  issued,        \* number of token responses the authorization server has given
  cpc,           \* cpc[c]: where execution c of getValidAccessToken() is suspended
  tokens,        \* tokens[c]: the OAuth2Tokens execution c holds (read, or received)
  result,        \* result[c]: what execution c returned or threw
  flows,         \* flows[c]: authorization flows execution c has started
  flowStart,     \* flowStart[c]: when c's callback server started listening
  registry,      \* RequestTracker: registry[id] is the invocation whose context is kept under id, or 0
  ipc,           \* ipc[i]: where tool invocation i is suspended
  request,       \* request[i]: the tools/call request of invocation i
  controller,    \* controller[i]: context.abortController of invocation i
  registeredAt,  \* registeredAt[i]: context.registeredAt of invocation i
  outcome,       \* outcome[i]: what the client receives for invocation i
  cancelReturned, \* what the last cancelRequest() returned
  progress,      \* progress[i]: progress values delivered to the client for invocation i's token
  lost,          \* lost[i]: the transport rejected a progress event of invocation i
  transportFlaky, \* whether the notification channel may reject a progress event
  written,       \* <<>> or <<[tokens, file]>>: the last storeTokens(tokens) and the file content it wrote
  loaded,        \* [done, tokens]: what the last getTokens() returned (<<>> is null)
  files,         \* files[u]: ~/.mcp/<provider>-tokens/<u>.json: <<>> or <<record>>
  keychain,      \* keychain[a]: keychain password mcp-oauth-tokens/<provider>-<a>: <<>> or <<tokens>>
  op,            \* the last TokenManager call made with a user id, and how many were made
  directory,     \* ~/.mcp/<provider>-tokens: whether it exists, the constructor's ensureDir, a store in progress
  flow,          \* flow[c]: callback server, timer, browser and promise of c's authorize()
  env,           \* which environment variables are set
  process,       \* "starting", "serving", "shuttingDown" or "exited"
  teardown,      \* what the signal handlers have shut down so far, in order
  toolsIo,       \* the last tools/list answer and how the last tools/call name was dispatched
  initialized,   \* GoogleGmailTools.initialized: the API client has been initialized
  validation     \* a ServerConfig, the environment's credentials variable, and what validateConfig returned

storeVars == <<tokenFile, keychainEntry>>

authVars == <<keychainUp, tokenFile, keychainEntry, issued, cpc, tokens, result, flows, flowStart>>

serverVars == <<registry, ipc, request, controller, registeredAt, outcome, cancelReturned, progress, lost, transportFlaky>>

storeIoVars == <<written, loaded>>

usersVars == <<files, keychain, op, directory>>

startupVars == <<env, process, teardown, toolsIo, initialized, validation>>

detailVars == <<usersVars, flow, startupVars>>

vars == <<now, authVars, serverVars, storeIoVars, detailVars>>

\* ---------------------------------------------------------------- OAuth2Tokens
\* access_token, refresh_token: 0 is null/absent; expiry_date: 0 is null/absent
\* (the code reads it as `tokens.expiry_date || 0`).
OAuth2Tokens(at, rt, exp) == [access_token |-> at, refresh_token |-> rt, expiry_date |-> exp]

NoTokens == OAuth2Tokens(0, 0, 0)

\* The access token of the credential stored before the process started.
StoredAccessToken == MaxIssued + 1

\* The one refresh token of the stored credential.
StoredRefreshToken == MaxIssued + 2

NoResult == [kind |-> "none", token |-> 0]

Returned(kind, at) == [kind |-> kind, token |-> at]

Threw(kind) == [kind |-> kind, token |-> 0]

\* ---------------------------------------------------------------- TokenManager
KeychainReference == [type |-> "keychain", data |-> <<>>]

FileEnvelope(t) == [type |-> "file", data |-> <<t>>]

\* decryptTokenData / getTokens: <<>> is null.
getTokens ==
  IF tokenFile = <<>> THEN <<>>
  ELSE IF tokenFile[1].type = "keychain"
       THEN (IF keychainUp THEN keychainEntry ELSE <<>>)
       ELSE tokenFile[1].data

\* storeTokens: keychain first, file-based encryption as the fallback.
storeTokens(t) ==
  IF keychainUp
  THEN /\ keychainEntry' = <<t>>
       /\ tokenFile' = <<KeychainReference>>
  ELSE /\ tokenFile' = <<FileEnvelope(t)>>
       /\ UNCHANGED keychainEntry

\* ---------------------------------------------------------------- GoogleOAuthClient
\* Mutant: a token that expires exactly at the end of the buffer counts as valid.
isTokenExpired_exclusive(t, clock) == clock + buffer > t.expiry_date

\* Mutant: the buffer is applied twice.
isTokenExpired_widerBuffer(t, clock) == clock + buffer + buffer >= t.expiry_date

isTokenExpired(t, clock) == clock + buffer >= t.expiry_date

\* An adapter calls getValidAccessToken(); it suspends in tokenManager.getTokens().
Call(c) ==
  /\ cpc[c] = "idle"
  /\ cpc' = [cpc EXCEPT ![c] = "getTokens"]
  /\ UNCHANGED <<serverVars, storeIoVars, detailVars, now, keychainUp, storeVars, issued, tokens, result, flows, flowStart>>

\* getTokens() gave null: authorize() opens the browser and starts the callback server.
GetTokensNone(c) ==
  /\ cpc[c] = "getTokens"
  /\ getTokens = <<>>
  /\ flows[c] < MaxFlows
  /\ flows' = [flows EXCEPT ![c] = @ + 1]
  /\ flowStart' = [flowStart EXCEPT ![c] = now]
  /\ cpc' = [cpc EXCEPT ![c] = "awaitCallback"]
  /\ UNCHANGED <<serverVars, storeIoVars, detailVars, now, keychainUp, storeVars, issued, tokens, result>>

\* Expired and no refresh token: throws 'No refresh token available for token refresh'.
GetTokensExpiredNoRefreshToken(c) ==
  /\ cpc[c] = "getTokens"
  /\ getTokens # <<>>
  /\ isTokenExpired(getTokens[1], now)
  /\ getTokens[1].refresh_token = 0
  /\ cpc' = [cpc EXCEPT ![c] = "threw"]
  /\ result' = [result EXCEPT ![c] = Threw("AuthorizationRequired")]
  /\ UNCHANGED <<serverVars, storeIoVars, detailVars, now, keychainUp, storeVars, issued, tokens, flows, flowStart>>

\* Expired with a refresh token: refreshTokens() sends the refresh request.
GetTokensExpiredRefresh(c) ==
  /\ cpc[c] = "getTokens"
  /\ getTokens # <<>>
  /\ isTokenExpired(getTokens[1], now)
  /\ getTokens[1].refresh_token # 0
  /\ cpc' = [cpc EXCEPT ![c] = "refreshing"]
  /\ tokens' = [tokens EXCEPT ![c] = getTokens[1]]
  /\ UNCHANGED <<serverVars, storeIoVars, detailVars, now, keychainUp, storeVars, issued, result, flows, flowStart>>

\* Not expired but no access token: throws 'No access token available'.
GetTokensValidNoAccessToken(c) ==
  /\ cpc[c] = "getTokens"
  /\ getTokens # <<>>
  /\ ~isTokenExpired(getTokens[1], now)
  /\ getTokens[1].access_token = 0
  /\ cpc' = [cpc EXCEPT ![c] = "threw"]
  /\ result' = [result EXCEPT ![c] = Threw("NoAccessToken")]
  /\ UNCHANGED <<serverVars, storeIoVars, detailVars, now, keychainUp, storeVars, issued, tokens, flows, flowStart>>

\* Not expired: returns tokens.access_token.
GetTokensValid(c) ==
  /\ cpc[c] = "getTokens"
  /\ getTokens # <<>>
  /\ ~isTokenExpired(getTokens[1], now)
  /\ getTokens[1].access_token # 0
  /\ cpc' = [cpc EXCEPT ![c] = "returned"]
  /\ result' = [result EXCEPT ![c] = Returned("stored", getTokens[1].access_token)]
  /\ UNCHANGED <<serverVars, storeIoVars, detailVars, now, keychainUp, storeVars, issued, tokens, flows, flowStart>>

\* Mutant: the credentials are the server's answer alone, which names no refresh
\* token.
RefreshAccessTokenOk_dropsRefreshToken(c) ==
  /\ cpc[c] = "refreshing"
  /\ issued < MaxIssued
  /\ \E hasAccess \in BOOLEAN, life \in Lifetimes :
       tokens' = [tokens EXCEPT ![c] =
                    OAuth2Tokens(IF hasAccess THEN issued + 1 ELSE 0, 0, now + life)]
  /\ issued' = issued + 1
  /\ cpc' = [cpc EXCEPT ![c] = "storeRefreshed"]
  /\ UNCHANGED <<serverVars, storeIoVars, detailVars, now, keychainUp, storeVars, result, flows, flowStart>>

\* refreshAccessToken() resolves: the server's credentials, carrying the refresh
\* token that was sent; storeTokens(credentials) is awaited next.
RefreshAccessTokenOk(c) ==
  /\ cpc[c] = "refreshing"
  /\ issued < MaxIssued
  /\ \E hasAccess \in BOOLEAN, life \in Lifetimes :
       tokens' = [tokens EXCEPT ![c] =
                    OAuth2Tokens(IF hasAccess THEN issued + 1 ELSE 0,
                                 tokens[c].refresh_token, now + life)]
  /\ issued' = issued + 1
  /\ cpc' = [cpc EXCEPT ![c] = "storeRefreshed"]
  /\ UNCHANGED <<serverVars, storeIoVars, detailVars, now, keychainUp, storeVars, result, flows, flowStart>>

\* Mutant: a rejected refresh is taken for "not authorized" and authorize() is run.
RefreshAccessTokenRejected_reauthorize(c) ==
  /\ cpc[c] = "refreshing"
  /\ flows[c] < MaxFlows
  /\ flows' = [flows EXCEPT ![c] = @ + 1]
  /\ flowStart' = [flowStart EXCEPT ![c] = now]
  /\ cpc' = [cpc EXCEPT ![c] = "awaitCallback"]
  /\ tokens' = [tokens EXCEPT ![c] = NoTokens]
  /\ UNCHANGED <<serverVars, storeIoVars, detailVars, now, keychainUp, storeVars, issued, result>>

\* refreshAccessToken() rejects: the error leaves getValidAccessToken() as it is.
RefreshAccessTokenRejected(c) ==
  /\ cpc[c] = "refreshing"
  /\ cpc' = [cpc EXCEPT ![c] = "threw"]
  /\ result' = [result EXCEPT ![c] = Threw("TokenRefreshFailed")]
  /\ tokens' = [tokens EXCEPT ![c] = NoTokens]
  /\ UNCHANGED <<serverVars, storeIoVars, detailVars, now, keychainUp, storeVars, issued, flows, flowStart>>

\* storeTokens(credentials) resolves; then the access token is checked and returned.
StoreRefreshedOk(c) ==
  /\ cpc[c] = "storeRefreshed"
  /\ storeTokens(tokens[c])
  /\ IF tokens[c].access_token = 0
     THEN /\ cpc' = [cpc EXCEPT ![c] = "threw"]
          /\ result' = [result EXCEPT ![c] = Threw("RefreshNoAccessToken")]
     ELSE /\ cpc' = [cpc EXCEPT ![c] = "returned"]
          /\ result' = [result EXCEPT ![c] = Returned("refreshed", tokens[c].access_token)]
  /\ tokens' = [tokens EXCEPT ![c] = NoTokens]
  /\ UNCHANGED <<serverVars, storeIoVars, detailVars, now, keychainUp, issued, flows, flowStart>>

\* storeTokens(credentials) throws 'Token storage failed'.
StoreRefreshedFailed(c) ==
  /\ cpc[c] = "storeRefreshed"
  /\ cpc' = [cpc EXCEPT ![c] = "threw"]
  /\ result' = [result EXCEPT ![c] = Threw("TokenStorageFailed")]
  /\ tokens' = [tokens EXCEPT ![c] = NoTokens]
  /\ UNCHANGED <<serverVars, storeIoVars, detailVars, now, keychainUp, storeVars, issued, flows, flowStart>>

\* The callback server receives ?code=...: it closes and exchangeCodeForTokens starts.
CallbackCode(c) ==
  /\ cpc[c] = "awaitCallback"
  /\ now <= flowStart[c] + authTimeout
  /\ cpc' = [cpc EXCEPT ![c] = "exchanging"]
  /\ flowStart' = [flowStart EXCEPT ![c] = 0]
  /\ UNCHANGED <<serverVars, storeIoVars, detailVars, now, keychainUp, storeVars, issued, tokens, result, flows>>

\* The callback server receives ?error=...: 'OAuth authorization failed'.
CallbackError(c) ==
  /\ cpc[c] = "awaitCallback"
  /\ now <= flowStart[c] + authTimeout
  /\ cpc' = [cpc EXCEPT ![c] = "threw"]
  /\ result' = [result EXCEPT ![c] = Threw("AuthorizationFailed")]
  /\ flowStart' = [flowStart EXCEPT ![c] = 0]
  /\ UNCHANGED <<serverVars, storeIoVars, detailVars, now, keychainUp, storeVars, issued, tokens, flows>>

\* The 5-minute timer fires first: 'OAuth authorization timeout'.
CallbackTimeout(c) ==
  /\ cpc[c] = "awaitCallback"
  /\ now >= flowStart[c] + authTimeout
  /\ cpc' = [cpc EXCEPT ![c] = "threw"]
  /\ result' = [result EXCEPT ![c] = Threw("AuthorizationTimeout")]
  /\ flowStart' = [flowStart EXCEPT ![c] = 0]
  /\ UNCHANGED <<serverVars, storeIoVars, detailVars, now, keychainUp, storeVars, issued, tokens, flows>>

\* oauth2Client.getToken(code) resolves with the server's tokens.
ExchangeOk(c) ==
  /\ cpc[c] = "exchanging"
  /\ issued < MaxIssued
  /\ \E hasAccess \in BOOLEAN, hasRefresh \in BOOLEAN, life \in Lifetimes :
       tokens' = [tokens EXCEPT ![c] =
                    OAuth2Tokens(IF hasAccess THEN issued + 1 ELSE 0,
                                 IF hasRefresh THEN StoredRefreshToken ELSE 0,
                                 now + life)]
  /\ issued' = issued + 1
  /\ cpc' = [cpc EXCEPT ![c] = "storeAuthorized"]
  /\ UNCHANGED <<serverVars, storeIoVars, detailVars, now, keychainUp, storeVars, result, flows, flowStart>>

\* oauth2Client.getToken(code) rejects.
ExchangeFailed(c) ==
  /\ cpc[c] = "exchanging"
  /\ cpc' = [cpc EXCEPT ![c] = "threw"]
  /\ result' = [result EXCEPT ![c] = Threw("CodeExchangeFailed")]
  /\ tokens' = [tokens EXCEPT ![c] = NoTokens]
  /\ UNCHANGED <<serverVars, storeIoVars, detailVars, now, keychainUp, storeVars, issued, flows, flowStart>>

\* storeTokens(tokens) resolves; authorize() returns and getValidAccessToken()
\* calls itself: it suspends in getTokens() again.
StoreAuthorizedOk(c) ==
  /\ cpc[c] = "storeAuthorized"
  /\ storeTokens(tokens[c])
  /\ cpc' = [cpc EXCEPT ![c] = "getTokens"]
  /\ tokens' = [tokens EXCEPT ![c] = NoTokens]
  /\ UNCHANGED <<serverVars, storeIoVars, detailVars, now, keychainUp, issued, result, flows, flowStart>>

\* storeTokens(tokens) throws 'Token storage failed'.
StoreAuthorizedFailed(c) ==
  /\ cpc[c] = "storeAuthorized"
  /\ cpc' = [cpc EXCEPT ![c] = "threw"]
  /\ result' = [result EXCEPT ![c] = Threw("TokenStorageFailed")]
  /\ tokens' = [tokens EXCEPT ![c] = NoTokens]
  /\ UNCHANGED <<serverVars, storeIoVars, detailVars, now, keychainUp, storeVars, issued, flows, flowStart>>

\* ---------------------------------------------------------------- environment
\* Time passes.
Tick ==
  /\ \E d \in TickSteps :
       /\ now + d <= MaxNow
       /\ now' = now + d
  /\ UNCHANGED <<authVars, serverVars, storeIoVars, detailVars>>

\* The platform keychain becomes unavailable (locked, no session bus) or available.
KeychainChange ==
  /\ keychainUp' = ~keychainUp
  /\ UNCHANGED <<serverVars, storeIoVars, detailVars, now, storeVars, issued, cpc, tokens, result, flows, flowStart>>

\* ---------------------------------------------------------------- RequestTracker
\* The transport is connected and the handlers answer, also while a signal
\* handler waits for the log shipper.
Serving == process \in {"serving", "shuttingDown"}

\* Concurrent tools/call invocations.
Invocations == {1, 2}

\* JSON-RPC request ids a client uses.
RequestIds == {1, 2}

\* progressToken of a request: 0 when the request carries none.
ProgressTokens == {0, 1}

\* Reasons a notifications/cancelled carries.
Reasons == {"user", "deadline"}

ToolNames == {"google-gmail_list_messages", "no_such_tool"}

\* Minutes after which cleanupStaleRequests() evicts a context.
staleThreshold == 5

NoRequest == [id |-> 0, name |-> "", progressToken |-> 0]

NewController == [aborted |-> FALSE, reason |-> ""]

\* AbortController.abort(reason): the first abort sets the reason, later ones do nothing.
abort(ctl, reason) == IF ctl.aborted THEN ctl ELSE [aborted |-> TRUE, reason |-> reason]

\* registerRequest(requestId, progressToken, toolName), when requestId is free.
registerRequest(i, id) ==
  /\ registry' = [registry EXCEPT ![id] = i]
  /\ controller' = [controller EXCEPT ![i] = NewController]
  /\ registeredAt' = [registeredAt EXCEPT ![i] = now]

\* cancelRequest(requestId, reason): true when a context was found and aborted.
cancelRequest(id, reason) ==
  IF registry[id] # 0
  THEN /\ controller' = [controller EXCEPT ![registry[id]] = abort(@, reason)]
       /\ cancelReturned' = "true"
  ELSE /\ controller' = controller
       /\ cancelReturned' = "false"

\* cleanup(requestId): removes whatever context is kept under requestId.
cleanup(id) == registry' = [registry EXCEPT ![id] = 0]

\* Request ids whose context is older than the staleness threshold.
StaleIds == {id \in RequestIds : registry[id] # 0 /\ now - registeredAt[registry[id]] > staleThreshold}

\* cleanupStaleRequests(): cancels and removes every stale context.
cleanupStaleRequests ==
  /\ controller' = [i \in Invocations |->
                      IF \E id \in StaleIds : registry[id] = i
                      THEN abort(controller[i], "stale")
                      ELSE controller[i]]
  /\ registry' = [id \in RequestIds |-> IF id \in StaleIds THEN 0 ELSE registry[id]]

\* ---------------------------------------------------------------- ProgressReporter
\* The context of invocation i is registered and its signal is not aborted.
Reportable(i) == registry[request[i].id] = i /\ ~controller[i].aborted

\* A progress event goes to the transport: it is delivered, or the transport
\* rejects it and the failure is only logged.
emit(i, value) ==
  \/ /\ progress' = [progress EXCEPT ![i] = Append(@, value)]
     /\ lost' = lost
  \/ /\ transportFlaky
     /\ progress' = progress
     /\ lost' = [lost EXCEPT ![i] = TRUE]

\* report(progressToken, {progress: value, total: 100}): a no-op when the context
\* that owns the token is cancelled or gone.
report(i, value) ==
  IF Reportable(i) THEN emit(i, value) ELSE UNCHANGED <<progress, lost>>

\* ---------------------------------------------------------------- tool adapters
\* The adapters, in the order in which the handlers go through them.
Adapters == <<"google-gmail", "google-drive", "google-calendar", "google-contacts">>

\* Mutant: the drive adapter does not advertise share_file.
toolDefinitions_withoutShare ==
  [a \in {"google-gmail", "google-drive", "google-calendar", "google-contacts"} |->
     IF a = "google-drive" THEN <<"google-drive_list_files", "google-drive_get_file">> ELSE <<>>]

\* getToolDefinitions(): the names of the definitions, in order.
toolDefinitions ==
  [a \in {"google-gmail", "google-drive", "google-calendar", "google-contacts"} |->
     CASE a = "google-gmail" ->
            <<"google-gmail_list_messages", "google-gmail_get_message", "google-gmail_send_message",
              "google-gmail_create_draft", "google-gmail_delete_message", "google-gmail_modify_message",
              "google-gmail_search_messages">>
       [] a = "google-drive" ->
            <<"google-drive_list_files", "google-drive_get_file", "google-drive_update_file",
              "google-drive_delete_file", "google-drive_search_files", "google-drive_create_file",
              "google-drive_share_file">>
       [] a = "google-calendar" ->
            <<"google-calendar_list_events", "google-calendar_get_event", "google-calendar_create_event",
              "google-calendar_update_event", "google-calendar_delete_event", "google-calendar_list_calendars">>
       [] a = "google-contacts" ->
            <<"google-contacts_create_contact", "google-contacts_update_contact", "google-contacts_delete_contact",
              "google-contacts_search_contacts", "google-contacts_list_contacts", "google-contacts_get_contact">>]

\* canHandle(toolName): the supportedTools array of each adapter.
supportedTools ==
  [a \in {"google-gmail", "google-drive", "google-calendar", "google-contacts"} |->
     CASE a = "google-gmail" ->
            {"google-gmail_list_messages", "google-gmail_get_message", "google-gmail_send_message",
             "google-gmail_create_draft", "google-gmail_delete_message", "google-gmail_modify_message",
             "google-gmail_search_messages"}
       [] a = "google-drive" ->
            {"google-drive_list_files", "google-drive_get_file", "google-drive_update_file",
             "google-drive_delete_file", "google-drive_search_files", "google-drive_create_file",
             "google-drive_share_file"}
       [] a = "google-calendar" ->
            {"google-calendar_list_events", "google-calendar_get_event", "google-calendar_create_event",
             "google-calendar_update_event", "google-calendar_delete_event", "google-calendar_list_calendars"}
       [] a = "google-contacts" ->
            {"google-contacts_create_contact", "google-contacts_update_contact", "google-contacts_delete_contact",
             "google-contacts_search_contacts", "google-contacts_list_contacts", "google-contacts_get_contact"}]

\* The case labels of the switch in each adapter's executeTool.
executeCases ==
  [a \in {"google-gmail", "google-drive", "google-calendar", "google-contacts"} |->
     CASE a = "google-gmail" ->
            {"google-gmail_list_messages", "google-gmail_get_message", "google-gmail_send_message",
             "google-gmail_create_draft", "google-gmail_delete_message", "google-gmail_modify_message",
             "google-gmail_search_messages"}
       [] a = "google-drive" ->
            {"google-drive_list_files", "google-drive_get_file", "google-drive_update_file",
             "google-drive_delete_file", "google-drive_search_files", "google-drive_create_file",
             "google-drive_share_file"}
       [] a = "google-calendar" ->
            {"google-calendar_list_events", "google-calendar_get_event", "google-calendar_create_event",
             "google-calendar_update_event", "google-calendar_delete_event", "google-calendar_list_calendars"}
       [] a = "google-contacts" ->
            {"google-contacts_create_contact", "google-contacts_update_contact", "google-contacts_delete_contact",
             "google-contacts_search_contacts", "google-contacts_list_contacts", "google-contacts_get_contact"}]

\* ---------------------------------------------------------------- GoogleGmailTools
canHandle(name) == name \in supportedTools["google-gmail"]

\* Mutant: `finally` releases every tracked request, not only its own.
Finish_cleansAll(i, what) ==
  /\ ipc' = [ipc EXCEPT ![i] = "done"]
  /\ outcome' = [outcome EXCEPT ![i] = what]
  /\ registry' = [id \in RequestIds |-> 0]

\* Mutant: cleanup(requestId) runs at the end of the try block, not in `finally`.
Finish_cleanupOnSuccessOnly(i, what) ==
  /\ ipc' = [ipc EXCEPT ![i] = "done"]
  /\ outcome' = [outcome EXCEPT ![i] = what]
  /\ IF what = "result" THEN cleanup(request[i].id) ELSE registry' = registry

\* The handler's invocation ends: `finally` runs cleanup(requestId) and the client
\* receives `what`.
Finish(i, what) ==
  /\ ipc' = [ipc EXCEPT ![i] = "done"]
  /\ outcome' = [outcome EXCEPT ![i] = what]
  /\ cleanup(request[i].id)

\* ---------------------------------------------------------------- index.ts
\* GoogleOAuthClient.initialize() finds the client identifier and the client secret.
Configured == env.GOOGLE_CLIENT_ID /\ env.GOOGLE_CLIENT_SECRET

\* What the client receives when initialize() threw '... environment variable is
\* required'.
MissingConfiguration == "error: Tool execution failed: environment variable is required"

\* Mutant: registerRequest is called inside the try block, so `finally` cleans the
\* id up after the failed registration.
CallToolDuplicate_cleansUp(i) ==
  /\ ipc[i] = "idle"
  /\ \E id \in RequestIds, name \in ToolNames, pt \in ProgressTokens :
       /\ registry[id] # 0
       /\ request' = [request EXCEPT ![i] = [id |-> id, name |-> name, progressToken |-> pt]]
       /\ cleanup(id)
  /\ ipc' = [ipc EXCEPT ![i] = "done"]
  /\ outcome' = [outcome EXCEPT ![i] = "error: DuplicateRequestId"]
  /\ UNCHANGED <<now, authVars, storeIoVars, detailVars, transportFlaky, progress, lost, controller, registeredAt, cancelReturned>>

\* tools/call with an id that is already registered: registerRequest throws before
\* the handler's try block is entered.
CallToolDuplicate(i) ==
  /\ Serving
  /\ ipc[i] = "idle"
  /\ \E id \in RequestIds, name \in ToolNames, pt \in ProgressTokens :
       /\ registry[id] # 0
       /\ request' = [request EXCEPT ![i] = [id |-> id, name |-> name, progressToken |-> pt]]
  /\ ipc' = [ipc EXCEPT ![i] = "done"]
  /\ outcome' = [outcome EXCEPT ![i] = "error: DuplicateRequestId"]
  /\ UNCHANGED <<now, authVars, storeIoVars, detailVars, transportFlaky, progress, lost, registry, controller, registeredAt, cancelReturned>>

\* Mutant: the unknown-tool error leaves the handler without passing `finally`.
CallToolUnknown_keepsContext(i) ==
  /\ Serving
  /\ ipc[i] = "idle"
  /\ \E id \in RequestIds, name \in ToolNames, pt \in ProgressTokens :
       /\ registry[id] = 0
       /\ ~canHandle(name)
       /\ request' = [request EXCEPT ![i] = [id |-> id, name |-> name, progressToken |-> pt]]
       /\ registerRequest(i, id)
  /\ ipc' = [ipc EXCEPT ![i] = "done"]
  /\ outcome' = [outcome EXCEPT ![i] = "error: Unknown tool"]
  /\ UNCHANGED <<now, authVars, storeIoVars, detailVars, transportFlaky, progress, lost, cancelReturned>>

\* tools/call for a name no adapter handles: McpError MethodNotFound; no await was
\* reached, so registration, the throw and cleanup are one step.
CallToolUnknown(i) ==
  /\ Serving
  /\ ipc[i] = "idle"
  /\ \E id \in RequestIds, name \in ToolNames, pt \in ProgressTokens :
       /\ registry[id] = 0
       /\ ~canHandle(name)
       /\ request' = [request EXCEPT ![i] = [id |-> id, name |-> name, progressToken |-> pt]]
       /\ controller' = [controller EXCEPT ![i] = NewController]
       /\ registeredAt' = [registeredAt EXCEPT ![i] = now]
       /\ registry' = [registry EXCEPT ![id] = 0]
  /\ ipc' = [ipc EXCEPT ![i] = "done"]
  /\ outcome' = [outcome EXCEPT ![i] = "error: Unknown tool"]
  /\ UNCHANGED <<now, authVars, storeIoVars, detailVars, transportFlaky, progress, lost, cancelReturned>>

\* tools/call for a gmail tool while GOOGLE_CLIENT_ID or GOOGLE_CLIENT_SECRET is
\* missing: the context is registered, ensureInitialized() rethrows what
\* initialize() threw, the handler wraps it in McpError InternalError 'Tool
\* execution failed: ...' and `finally` cleans up; `initialized` stays false. No
\* I/O was awaited, so this is one step.
CallToolNotConfigured(i) ==
  /\ Serving
  /\ ~Configured
  /\ ipc[i] = "idle"
  /\ \E id \in RequestIds, name \in ToolNames, pt \in ProgressTokens :
       /\ registry[id] = 0
       /\ canHandle(name)
       /\ request' = [request EXCEPT ![i] = [id |-> id, name |-> name, progressToken |-> pt]]
       /\ controller' = [controller EXCEPT ![i] = NewController]
       /\ registeredAt' = [registeredAt EXCEPT ![i] = now]
       /\ registry' = [registry EXCEPT ![id] = 0]
  /\ ipc' = [ipc EXCEPT ![i] = "done"]
  /\ outcome' = [outcome EXCEPT ![i] = MissingConfiguration]
  /\ UNCHANGED <<now, authVars, storeIoVars, detailVars, transportFlaky, progress, lost, cancelReturned>>

\* tools/call for a gmail tool: the context is registered and executeTool runs up to
\* its first suspension. The early cancellation check sees the signal created in
\* this very step, and ensureInitialized() completes without waiting on I/O. With
\* a progress token the tool awaits progressReporter.report(0); without one
\* listMessages goes straight to makeAuthenticatedRequest, which awaits
\* getValidAccessToken().
CallToolStart(i) ==
  /\ Serving
  /\ Configured
  /\ ipc[i] = "idle"
  /\ \E id \in RequestIds, name \in ToolNames, pt \in ProgressTokens :
       /\ registry[id] = 0
       /\ canHandle(name)
       /\ request' = [request EXCEPT ![i] = [id |-> id, name |-> name, progressToken |-> pt]]
       /\ registerRequest(i, id)
       /\ ipc' = [ipc EXCEPT ![i] = IF pt # 0 THEN "report0" ELSE "getValidAccessToken"]
       /\ IF pt # 0 THEN emit(i, 0) ELSE UNCHANGED <<progress, lost>>
  /\ initialized' = TRUE
  /\ UNCHANGED <<now, authVars, storeIoVars, usersVars, flow, env, process, teardown, toolsIo, validation, transportFlaky, outcome, cancelReturned>>

\* report(0) resolves: listMessages awaits options.onProgress(0).
ToolReportedStart(i) ==
  /\ ipc[i] = "report0"
  /\ ipc' = [ipc EXCEPT ![i] = "onProgress0"]
  /\ report(i, 0)
  /\ UNCHANGED <<now, authVars, storeIoVars, detailVars, transportFlaky, registry, request, controller, registeredAt, outcome, cancelReturned>>

\* onProgress(0) resolves: makeAuthenticatedRequest awaits getValidAccessToken().
ClientReportedStart(i) ==
  /\ ipc[i] = "onProgress0"
  /\ ipc' = [ipc EXCEPT ![i] = "getValidAccessToken"]
  /\ UNCHANGED <<now, authVars, storeIoVars, detailVars, transportFlaky, progress, lost, registry, request, controller, registeredAt, outcome, cancelReturned>>

\* getValidAccessToken() returns a token: httpClient.request(config) is issued with
\* config.signal; axios rejects at once when the signal is aborted already.
TokenAcquired(i) ==
  /\ ipc[i] = "getValidAccessToken"
  /\ IF controller[i].aborted
     THEN Finish(i, "isError: Request was cancelled")
     ELSE /\ ipc' = [ipc EXCEPT ![i] = "request"]
          /\ UNCHANGED <<registry, outcome>>
  /\ UNCHANGED <<now, authVars, storeIoVars, detailVars, transportFlaky, progress, lost, request, controller, registeredAt, cancelReturned>>

\* getValidAccessToken() throws: listMessages rethrows 'Failed to execute
\* list_messages: ...' and executeTool returns it as an error result.
TokenFailed(i) ==
  /\ ipc[i] = "getValidAccessToken"
  /\ Finish(i, "isError: Failed to execute")
  /\ UNCHANGED <<now, authVars, storeIoVars, detailVars, transportFlaky, progress, lost, request, controller, registeredAt, cancelReturned>>

\* The API answers. With a progress token listMessages awaits onProgress(100);
\* without one the result goes back to the client in the same step.
HttpResponse(i) ==
  /\ ipc[i] = "request"
  /\ ~controller[i].aborted
  /\ IF request[i].progressToken # 0
     THEN /\ ipc' = [ipc EXCEPT ![i] = "onProgress100"]
          /\ report(i, 100)
          /\ UNCHANGED <<registry, outcome>>
     ELSE /\ Finish(i, "result")
          /\ UNCHANGED <<progress, lost>>
  /\ UNCHANGED <<now, authVars, storeIoVars, detailVars, transportFlaky, request, controller, registeredAt, cancelReturned>>

\* The request fails (network, HTTP status, timeout) with the signal not aborted.
HttpFailed(i) ==
  /\ ipc[i] = "request"
  /\ ~controller[i].aborted
  /\ Finish(i, "isError: Failed to execute")
  /\ UNCHANGED <<now, authVars, storeIoVars, detailVars, transportFlaky, progress, lost, request, controller, registeredAt, cancelReturned>>

\* The signal was aborted while the request was in flight: axios rejects with a
\* cancel error, listMessages throws 'Request was cancelled'.
HttpAborted(i) ==
  /\ ipc[i] = "request"
  /\ controller[i].aborted
  /\ Finish(i, "isError: Request was cancelled")
  /\ UNCHANGED <<now, authVars, storeIoVars, detailVars, transportFlaky, progress, lost, request, controller, registeredAt, cancelReturned>>

\* Mutant: the tool sends the completion notification itself, without asking the
\* reporter whether the context is still live.
ClientReportedDone_emitsAlways(i) ==
  /\ ipc[i] = "onProgress100"
  /\ ipc' = [ipc EXCEPT ![i] = "report100"]
  /\ emit(i, 100)
  /\ UNCHANGED <<now, authVars, storeIoVars, detailVars, transportFlaky, registry, request, controller, registeredAt, outcome, cancelReturned>>

\* Mutant: the completion report repeats the values of the initial report.
ClientReportedDone_reportsZero(i) ==
  /\ ipc[i] = "onProgress100"
  /\ ipc' = [ipc EXCEPT ![i] = "report100"]
  /\ report(i, 0)
  /\ UNCHANGED <<now, authVars, storeIoVars, detailVars, transportFlaky, registry, request, controller, registeredAt, outcome, cancelReturned>>

\* onProgress(100) resolves: listMessages returns, the tool awaits report(100).
ClientReportedDone(i) ==
  /\ ipc[i] = "onProgress100"
  /\ ipc' = [ipc EXCEPT ![i] = "report100"]
  /\ report(i, 100)
  /\ UNCHANGED <<now, authVars, storeIoVars, detailVars, transportFlaky, registry, request, controller, registeredAt, outcome, cancelReturned>>

\* Mutant: a rejected progress event rejects report(), and the tool call fails.
ToolReportedDone_failsOnLostEvent(i) ==
  /\ ipc[i] = "report100"
  /\ Finish(i, IF lost[i] THEN "isError: Failed to execute" ELSE "result")
  /\ UNCHANGED <<now, authVars, storeIoVars, detailVars, transportFlaky, progress, lost, request, controller, registeredAt, cancelReturned>>

\* report(100) resolves: executeTool returns the result.
ToolReportedDone(i) ==
  /\ ipc[i] = "report100"
  /\ Finish(i, "result")
  /\ UNCHANGED <<now, authVars, storeIoVars, detailVars, transportFlaky, progress, lost, request, controller, registeredAt, cancelReturned>>

\* Mutant: the handler does not match the notification's requestId and cancels
\* whichever request it finds.
CancelledNotification_anyRequest(id, reason) ==
  /\ \E other \in RequestIds : cancelRequest(other, reason)
  /\ UNCHANGED <<now, authVars, storeIoVars, detailVars, transportFlaky, progress, lost, registry, ipc, request, registeredAt, outcome>>

\* Mutant: the handler calls cancelRequest(requestId) and drops the reason.
CancelledNotification_dropsReason(id, reason) ==
  /\ cancelRequest(id, "")
  /\ UNCHANGED <<now, authVars, storeIoVars, detailVars, transportFlaky, progress, lost, registry, ipc, request, registeredAt, outcome>>

\* notifications/cancelled: requestTracker.cancelRequest(requestId, reason).
CancelledNotification(id, reason) ==
  /\ Serving
  /\ cancelRequest(id, reason)
  /\ UNCHANGED <<now, authVars, storeIoVars, detailVars, transportFlaky, progress, lost, registry, ipc, request, registeredAt, outcome>>

\* Mutant: the interval cancels and removes every context, whatever its age.
PeriodicCleanup_evictsAll ==
  /\ controller' = [i \in Invocations |->
                      IF \E id \in RequestIds : registry[id] = i
                      THEN abort(controller[i], "stale")
                      ELSE controller[i]]
  /\ registry' = [id \in RequestIds |-> 0]
  /\ UNCHANGED <<now, authVars, storeIoVars, detailVars, transportFlaky, progress, lost, ipc, request, registeredAt, outcome, cancelReturned>>

\* The 60-second interval fires.
PeriodicCleanup ==
  /\ cleanupStaleRequests
  /\ UNCHANGED <<now, authVars, storeIoVars, detailVars, transportFlaky, progress, lost, ipc, request, registeredAt, outcome, cancelReturned>>

\* ---------------------------------------------------------------- specification
\* Credentials a previous run of the process may have left in the store.
StoredBefore ==
  {OAuth2Tokens(StoredAccessToken, rt, exp) :
     rt \in {0, StoredRefreshToken}, exp \in {0, 1, buffer, buffer + 1}}

NotLoaded == [done |-> FALSE, tokens |-> <<>>]

InitStoreIo ==
  /\ written = <<>>
  /\ loaded = NotLoaded

\* User ids the TokenManager is called with; 'default' is the one the
\* GoogleOAuthClient uses.
Users == {"default", "alice"}

NoOp == [n |-> 0, name |-> "none", user |-> "", threw |-> FALSE]

\* The token directory exists, the constructor's ensureDir has finished, and no
\* storeTokens() is in progress.
DirectoryReady == [exists |-> TRUE, ensureDir |-> "done", storing |-> <<>>]

InitUsers ==
  /\ files = [u \in Users |-> <<>>]
  /\ keychain = [a \in Users |-> <<>>]
  /\ op = NoOp
  /\ directory = DirectoryReady

\* No authorize() has run: no callback server, no timer, no browser.
\* invalid counts the requests without code or error answered while listening.
NoFlow == [listening |-> FALSE, timer |-> FALSE, browser |-> "none", promise |-> "none", invalid |-> 0]

InitFlow == flow = [c \in Callers |-> NoFlow]

\* validateConfig has not been called.
NotValidated == [done |-> FALSE, config |-> <<>>, credentials |-> "unset", result |-> <<>>]

\* No tools/list and no tools/call was answered.
NoToolsIo == [n |-> 0, listed |-> <<>>, name |-> "", adapter |-> "none", hasCase |-> FALSE]

\* The environment is complete and the process is serving requests.
InitServing ==
  /\ env = [GOOGLE_OAUTH_CREDENTIALS |-> TRUE, GOOGLE_CLIENT_ID |-> TRUE, GOOGLE_CLIENT_SECRET |-> TRUE]
  /\ process = "serving"
  /\ teardown = <<>>
  /\ toolsIo = NoToolsIo
  /\ initialized = FALSE
  /\ validation = NotValidated

InitDetail ==
  /\ InitUsers
  /\ InitFlow
  /\ InitServing

InitCallers ==
  /\ issued = 0
  /\ cpc = [c \in Callers |-> "idle"]
  /\ tokens = [c \in Callers |-> NoTokens]
  /\ result = [c \in Callers |-> NoResult]
  /\ flows = [c \in Callers |-> 0]
  /\ flowStart = [c \in Callers |-> 0]

InitServer ==
  /\ registry = [id \in RequestIds |-> 0]
  /\ ipc = [i \in Invocations |-> "idle"]
  /\ request = [i \in Invocations |-> NoRequest]
  /\ controller = [i \in Invocations |-> NewController]
  /\ registeredAt = [i \in Invocations |-> 0]
  /\ outcome = [i \in Invocations |-> "none"]
  /\ cancelReturned = "none"
  /\ progress = [i \in Invocations |-> <<>>]
  /\ lost = [i \in Invocations |-> FALSE]

Init ==
  /\ now = 0
  /\ keychainUp \in BOOLEAN
  /\ \/ /\ tokenFile = <<>>
        /\ keychainEntry = <<>>
     \/ \E t \in StoredBefore :
          IF keychainUp
          THEN /\ tokenFile = <<KeychainReference>>
               /\ keychainEntry = <<t>>
          ELSE /\ tokenFile = <<FileEnvelope(t)>>
               /\ keychainEntry = <<>>
  /\ InitCallers
  /\ InitServer
  /\ InitStoreIo
  /\ InitDetail
  /\ transportFlaky = FALSE

getValidAccessToken(c) ==
  \/ GetTokensNone(c)
  \/ GetTokensExpiredNoRefreshToken(c)
  \/ GetTokensExpiredRefresh(c)
  \/ GetTokensValidNoAccessToken(c)
  \/ GetTokensValid(c)
  \/ RefreshAccessTokenOk(c)
  \/ RefreshAccessTokenRejected(c)
  \/ StoreRefreshedOk(c)
  \/ StoreRefreshedFailed(c)
  \/ CallbackCode(c)
  \/ CallbackError(c)
  \/ CallbackTimeout(c)
  \/ ExchangeOk(c)
  \/ ExchangeFailed(c)
  \/ StoreAuthorizedOk(c)
  \/ StoreAuthorizedFailed(c)

\* The credential manager under concurrent callers.
Next ==
  \/ \E c \in Callers : Call(c) \/ getValidAccessToken(c)
  \/ Tick
  \/ KeychainChange

Spec == Init /\ [][Next]_vars

\* The request lifecycle: concurrent tool invocations, cancellation notifications
\* and the periodic sweep. The credential manager shows here only through what
\* getValidAccessToken() gives the API client: a token or an error.
InitLifecycle ==
  /\ now = 0
  /\ keychainUp = FALSE
  /\ tokenFile = <<>>
  /\ keychainEntry = <<>>
  /\ InitCallers
  /\ InitServer
  /\ InitStoreIo
  /\ InitDetail
  /\ transportFlaky = FALSE

CallTool(i) ==
  \/ CallToolDuplicate(i)
  \/ CallToolUnknown(i)
  \/ CallToolStart(i)
  \/ ToolReportedStart(i)
  \/ ClientReportedStart(i)
  \/ TokenAcquired(i)
  \/ TokenFailed(i)
  \/ HttpResponse(i)
  \/ HttpFailed(i)
  \/ HttpAborted(i)
  \/ ClientReportedDone(i)
  \/ ToolReportedDone(i)

NextLifecycle ==
  \/ \E i \in Invocations : CallTool(i)
  \/ \E id \in RequestIds, reason \in Reasons : CancelledNotification(id, reason)
  \/ PeriodicCleanup
  \/ Tick

SpecLifecycle == InitLifecycle /\ [][NextLifecycle]_vars

\* ---------------------------------------------------------------- executeTool, called with a context
\* The adapter takes the context as a parameter. Here the holder of the tracker
\* registers the request first and calls executeTool() in a later turn, so that a
\* cancellation can come in between; the handler of index.ts makes both calls in
\* one synchronous run (CallToolStart).
Register(i) ==
  /\ Serving
  /\ Configured
  /\ ipc[i] = "idle"
  /\ \E id \in RequestIds, pt \in ProgressTokens :
       /\ registry[id] = 0
       /\ request' = [request EXCEPT ![i] = [id |-> id, name |-> "google-gmail_list_messages", progressToken |-> pt]]
       /\ registerRequest(i, id)
  /\ ipc' = [ipc EXCEPT ![i] = "registered"]
  /\ UNCHANGED <<now, authVars, storeIoVars, detailVars, transportFlaky, progress, lost, outcome, cancelReturned>>

\* Mutant: the cancellation check comes after `await this.ensureInitialized()`.
ExecuteToolCancelledEarly_afterInitialization(i) ==
  /\ ipc[i] = "registered"
  /\ controller[i].aborted
  /\ Finish(i, "error: Request was cancelled")
  /\ initialized' = TRUE
  /\ UNCHANGED <<now, authVars, storeIoVars, usersVars, flow, env, process, teardown, toolsIo, validation, transportFlaky, progress, lost, request, controller, registeredAt, cancelReturned>>

\* executeTool(name, args, context) with context.abortController.signal.aborted:
\* it throws 'Request was cancelled' before ensureInitialized(); the handler's
\* catch finds the signal aborted and throws McpError 'Request was cancelled', and
\* `finally` cleans up.
ExecuteToolCancelledEarly(i) ==
  /\ ipc[i] = "registered"
  /\ controller[i].aborted
  /\ Finish(i, "error: Request was cancelled")
  /\ UNCHANGED <<now, authVars, storeIoVars, detailVars, transportFlaky, progress, lost, request, controller, registeredAt, cancelReturned>>

\* executeTool(name, args, context) with a signal that is not aborted: as in
\* CallToolStart, up to the first suspension.
ExecuteToolStart(i) ==
  /\ ipc[i] = "registered"
  /\ ~controller[i].aborted
  /\ ipc' = [ipc EXCEPT ![i] = IF request[i].progressToken # 0 THEN "report0" ELSE "getValidAccessToken"]
  /\ IF request[i].progressToken # 0 THEN emit(i, 0) ELSE UNCHANGED <<progress, lost>>
  /\ initialized' = TRUE
  /\ UNCHANGED <<now, authVars, storeIoVars, usersVars, flow, env, process, teardown, toolsIo, validation, transportFlaky, registry, request, controller, registeredAt, outcome, cancelReturned>>

executeTool(i) ==
  \/ ExecuteToolCancelledEarly(i)
  \/ ExecuteToolStart(i)
  \/ ToolReportedStart(i)
  \/ ClientReportedStart(i)
  \/ TokenAcquired(i)
  \/ TokenFailed(i)
  \/ HttpResponse(i)
  \/ HttpFailed(i)
  \/ HttpAborted(i)
  \/ ClientReportedDone(i)
  \/ ToolReportedDone(i)

NextExecuteTool ==
  \/ \E i \in Invocations : Register(i)
  \/ \E i \in Invocations : executeTool(i)
  \/ \E id \in RequestIds, reason \in Reasons : CancelledNotification(id, reason)

SpecExecuteTool == InitLifecycle /\ [][NextExecuteTool]_vars

\* The server is constructed: initializeLogging() validates the configuration and
\* exits with status 1 when GOOGLE_OAUTH_CREDENTIALS is not set.
StartupInvalid ==
  /\ process = "starting"
  /\ ~env.GOOGLE_OAUTH_CREDENTIALS
  /\ process' = "exited"
  /\ UNCHANGED <<now, authVars, serverVars, storeIoVars, usersVars, flow, env, teardown, toolsIo, initialized, validation>>

\* The configuration is valid: the clients and tools are constructed, the handlers
\* set up, and run() connects the transport. Nothing reads GOOGLE_CLIENT_ID or
\* GOOGLE_CLIENT_SECRET.
StartupServing ==
  /\ process = "starting"
  /\ env.GOOGLE_OAUTH_CREDENTIALS
  /\ process' = "serving"
  /\ UNCHANGED <<now, authVars, serverVars, storeIoVars, usersVars, flow, env, teardown, toolsIo, initialized, validation>>

\* The process is started in any environment.
InitStartup ==
  /\ now = 0
  /\ keychainUp = FALSE
  /\ tokenFile = <<>>
  /\ keychainEntry = <<>>
  /\ InitCallers
  /\ InitServer
  /\ InitStoreIo
  /\ InitUsers
  /\ InitFlow
  /\ env \in [{"GOOGLE_OAUTH_CREDENTIALS", "GOOGLE_CLIENT_ID", "GOOGLE_CLIENT_SECRET"} -> BOOLEAN]
  /\ process = "starting"
  /\ teardown = <<>>
  /\ toolsIo = NoToolsIo
  /\ initialized = FALSE
  /\ validation = NotValidated
  /\ transportFlaky = FALSE

\* Start-up, then tool invocations and cancellation notifications.
NextStartup ==
  \/ StartupInvalid
  \/ StartupServing
  \/ \E i \in Invocations : CallTool(i) \/ CallToolNotConfigured(i)
  \/ \E id \in RequestIds, reason \in Reasons : CancelledNotification(id, reason)

SpecStartup == InitStartup /\ [][NextStartup]_vars

\* ---------------------------------------------------------------- config.ts
\* ServerConfig.logShipping objects validateConfig is given: endpoint is empty,
\* an http:// or an https:// URL.
LogShippingConfigs ==
  [enabled : BOOLEAN, endpoint : {"", "http://logs", "https://logs"}, apiKey : BOOLEAN,
   requireApiKey : BOOLEAN, batchSize : {0, 1, 1000, 1001}, flushInterval : {999, 1000},
   logLevel : {"ERROR", "TRACE"}]

\* process.env.GOOGLE_OAUTH_CREDENTIALS: unset, set to the empty string, or set.
CredentialSettings == {"unset", "empty", "set"}

LogLevels == {"DEBUG", "INFO", "WARN", "ERROR", "FATAL"}

\* The errors of the log-shipping checks.
LogShippingErrors ==
  {"LOG_INGESTION_URL environment variable is required when log shipping is enabled",
   "LOG_INGESTION_API_KEY environment variable is required when LOG_SHIPPING_REQUIRE_API_KEY is true",
   "LOG_INGESTION_URL must use HTTPS protocol",
   "LOG_SHIPPING_BATCH_SIZE must be between 1 and 1000",
   "LOG_SHIPPING_INTERVAL must be at least 1000ms",
   "LOG_LEVEL must be one of: DEBUG, INFO, WARN, ERROR, FATAL"}

\* The errors that name GOOGLE_OAUTH_CREDENTIALS, one per integration.
CredentialErrors ==
  <<"GOOGLE_OAUTH_CREDENTIALS environment variable is required for google-gmail OAuth authentication",
    "GOOGLE_OAUTH_CREDENTIALS environment variable is required for google-drive OAuth authentication",
    "GOOGLE_OAUTH_CREDENTIALS environment variable is required for google-calendar OAuth authentication",
    "GOOGLE_OAUTH_CREDENTIALS environment variable is required for google-contacts OAuth authentication">>

\* errors.push(message) when the condition holds.
pushIf(condition, message) == IF condition THEN <<message>> ELSE <<>>

\* Mutant: the log-shipping checks run whether or not log shipping is enabled.
validateConfig_alwaysChecksShipping(config, credentials) ==
  LET errors ==
        pushIf(config.endpoint = "",
               "LOG_INGESTION_URL environment variable is required when log shipping is enabled")
        \o pushIf(config.batchSize < 1 \/ config.batchSize > 1000,
                  "LOG_SHIPPING_BATCH_SIZE must be between 1 and 1000")
        \o (IF credentials \in {"unset", "empty"} THEN CredentialErrors ELSE <<>>)
  IN  [isValid |-> Len(errors) = 0, errors |-> errors]

\* validateConfig(config), with process.env.GOOGLE_OAUTH_CREDENTIALS as the second
\* argument; `!value` is true of an unset variable and of the empty string.
validateConfig(config, credentials) ==
  LET shipping ==
        IF config.enabled
        THEN pushIf(config.endpoint = "",
                    "LOG_INGESTION_URL environment variable is required when log shipping is enabled")
             \o pushIf(config.requireApiKey /\ ~config.apiKey,
                       "LOG_INGESTION_API_KEY environment variable is required when LOG_SHIPPING_REQUIRE_API_KEY is true")
             \o pushIf(config.endpoint = "http://logs",
                       "LOG_INGESTION_URL must use HTTPS protocol")
             \o pushIf(config.batchSize < 1 \/ config.batchSize > 1000,
                       "LOG_SHIPPING_BATCH_SIZE must be between 1 and 1000")
             \o pushIf(config.flushInterval < 1000,
                       "LOG_SHIPPING_INTERVAL must be at least 1000ms")
             \o pushIf(config.logLevel \notin LogLevels,
                       "LOG_LEVEL must be one of: DEBUG, INFO, WARN, ERROR, FATAL")
        ELSE <<>>
      errors == shipping \o (IF credentials \in {"unset", "empty"} THEN CredentialErrors ELSE <<>>)
  IN  [isValid |-> Len(errors) = 0, errors |-> errors]

\* validateConfig is called on the configuration at hand.
Validate ==
  /\ ~validation.done
  /\ validation' = [validation EXCEPT !.done = TRUE,
                                       !.result = validateConfig(validation.config, validation.credentials)]
  /\ UNCHANGED <<now, authVars, serverVars, storeIoVars, usersVars, flow, env, process, teardown, toolsIo, initialized>>

\* Any configuration in any environment.
InitConfig ==
  /\ now = 0
  /\ keychainUp = FALSE
  /\ tokenFile = <<>>
  /\ keychainEntry = <<>>
  /\ InitCallers
  /\ InitServer
  /\ InitStoreIo
  /\ InitUsers
  /\ InitFlow
  /\ env = [GOOGLE_OAUTH_CREDENTIALS |-> TRUE, GOOGLE_CLIENT_ID |-> TRUE, GOOGLE_CLIENT_SECRET |-> TRUE]
  /\ process = "starting"
  /\ teardown = <<>>
  /\ toolsIo = NoToolsIo
  /\ initialized = FALSE
  /\ \E config \in LogShippingConfigs, credentials \in CredentialSettings :
       validation = [done |-> FALSE, config |-> config, credentials |-> credentials, result |-> <<>>]
  /\ transportFlaky = FALSE

NextConfig == Validate

SpecConfig == InitConfig /\ [][NextConfig]_vars

\* tools/list and tools/call requests whose dispatch is followed.
MaxCalls == 3

\* Names a client asks for that no adapter knows.
UnknownNames == {"no_such_tool", "google-gmail_trash_message"}

\* tools/list: the definitions of the four adapters, pushed in order.
listTools ==
  toolDefinitions[Adapters[1]] \o toolDefinitions[Adapters[2]]
    \o toolDefinitions[Adapters[3]] \o toolDefinitions[Adapters[4]]

\* The tool names a tools/list answer advertises.
Advertised == {listTools[k] : k \in DOMAIN listTools}

\* The adapter the tools/call handler gives `name` to: the first whose canHandle
\* accepts it, "none" when the handler throws MethodNotFound.
dispatch(name) ==
  IF \E k \in DOMAIN Adapters : name \in supportedTools[Adapters[k]]
  THEN Adapters[CHOOSE k \in DOMAIN Adapters :
                  /\ name \in supportedTools[Adapters[k]]
                  /\ \A j \in 1..(k - 1) : name \notin supportedTools[Adapters[j]]]
  ELSE "none"

\* A client asks for the tool list.
ListTools ==
  /\ Serving
  /\ toolsIo.n < MaxCalls
  /\ toolsIo' = [toolsIo EXCEPT !.n = @ + 1, !.listed = listTools]
  /\ UNCHANGED <<now, authVars, serverVars, storeIoVars, usersVars, flow, env, process, teardown, initialized, validation>>

\* A client calls `name`: the handler picks the adapter, and the adapter's
\* executeTool reaches the switch.
DispatchTool(name) ==
  /\ Serving
  /\ toolsIo.n < MaxCalls
  /\ toolsIo' = [toolsIo EXCEPT !.n = @ + 1, !.name = name, !.adapter = dispatch(name),
                                 !.hasCase = IF dispatch(name) = "none" THEN FALSE
                                             ELSE name \in executeCases[dispatch(name)]]
  /\ UNCHANGED <<now, authVars, serverVars, storeIoVars, usersVars, flow, env, process, teardown, initialized, validation>>

NextTools ==
  \/ ListTools
  \/ \E name \in Advertised \cup UnknownNames : DispatchTool(name)

SpecTools == InitLifecycle /\ [][NextTools]_vars

\* SIGINT/SIGTERM signals the process handles.
MaxSignals == 2

\* RequestTracker.shutdown(): cancels every outstanding context and clears the
\* registry.
shutdown ==
  /\ controller' = [i \in Invocations |->
                      IF \E id \in RequestIds : registry[id] = i
                      THEN abort(controller[i], "shutdown")
                      ELSE controller[i]]
  /\ registry' = [id \in RequestIds |-> 0]

\* Mutant: the progress reporter is shut down before the request tracker.
Signal_reporterFirst ==
  /\ Serving
  /\ Len(teardown) < 2 * MaxSignals
  /\ shutdown
  /\ teardown' = teardown \o <<"progressReporter", "requestTracker">>
  /\ process' = "shuttingDown"
  /\ UNCHANGED <<now, authVars, storeIoVars, usersVars, flow, env, toolsIo, initialized, validation, transportFlaky, progress, lost, ipc, request, registeredAt, outcome, cancelReturned>>

\* SIGINT or SIGTERM: the handler calls requestTracker.shutdown(), then
\* progressReporter.shutdown(), and suspends in logShipper.shutdown().
Signal ==
  /\ Serving
  /\ Len(teardown) < 2 * MaxSignals
  /\ shutdown
  /\ teardown' = teardown \o <<"requestTracker", "progressReporter">>
  /\ process' = "shuttingDown"
  /\ UNCHANGED <<now, authVars, storeIoVars, usersVars, flow, env, toolsIo, initialized, validation, transportFlaky, progress, lost, ipc, request, registeredAt, outcome, cancelReturned>>

\* logShipper.shutdown() resolves: process.exit(0) ends every invocation.
LogShipperShutdown ==
  /\ process = "shuttingDown"
  /\ teardown' = teardown \o <<"logShipper", "exit">>
  /\ process' = "exited"
  /\ ipc' = [i \in Invocations |-> "exited"]
  /\ UNCHANGED <<now, authVars, storeIoVars, usersVars, flow, env, toolsIo, initialized, validation, transportFlaky, progress, lost, registry, request, controller, registeredAt, outcome, cancelReturned>>

\* Tool invocations and cancellation notifications until signals end the process.
NextTeardown ==
  \/ \E i \in Invocations : CallTool(i)
  \/ \E id \in RequestIds, reason \in Reasons : CancelledNotification(id, reason)
  \/ Signal
  \/ LogShipperShutdown

SpecTeardown == InitLifecycle /\ [][NextTeardown]_vars

\* Progress reporting: concurrent tool invocations and cancellation notifications
\* over a notification channel that may reject any progress event; no context
\* lives long enough to become stale.
InitProgress ==
  /\ now = 0
  /\ keychainUp = FALSE
  /\ tokenFile = <<>>
  /\ keychainEntry = <<>>
  /\ InitCallers
  /\ InitServer
  /\ InitStoreIo
  /\ InitDetail
  /\ transportFlaky = TRUE

NextProgress ==
  \/ \E i \in Invocations : CallTool(i)
  \/ \E id \in RequestIds, reason \in Reasons : CancelledNotification(id, reason)

SpecProgress == InitProgress /\ [][NextProgress]_vars

\* ---------------------------------------------------------------- revokeTokens, isAuthenticated
\* deleteTokens() for the default user: the file is removed.
removeTokenFile == tokenFile' = <<>>

\* deleteFromKeychain('default'): the password is deleted when keytar works; every
\* keychain error is swallowed.
deleteFromKeychain == keychainEntry' = IF keychainUp THEN <<>> ELSE keychainEntry

\* !!tokens?.access_token && !this.isTokenExpired(tokens)
isAuthenticated ==
  /\ getTokens # <<>>
  /\ getTokens[1].access_token # 0
  /\ ~isTokenExpired(getTokens[1], now)

\* revokeTokens() is called; it suspends in tokenManager.getTokens().
RevokeCall(c) ==
  /\ cpc[c] = "idle"
  /\ cpc' = [cpc EXCEPT ![c] = "revokeGetTokens"]
  /\ UNCHANGED <<serverVars, storeIoVars, detailVars, now, keychainUp, storeVars, issued, tokens, result, flows, flowStart>>

\* getTokens() gave a credential with an access token: revokeToken(access_token)
\* is sent to the authorization server.
RevokeAttempt(c) ==
  /\ cpc[c] = "revokeGetTokens"
  /\ getTokens # <<>>
  /\ getTokens[1].access_token # 0
  /\ cpc' = [cpc EXCEPT ![c] = "revokeToken"]
  /\ tokens' = [tokens EXCEPT ![c] = getTokens[1]]
  /\ UNCHANGED <<serverVars, storeIoVars, detailVars, now, keychainUp, storeVars, issued, result, flows, flowStart>>

\* getTokens() gave null or a credential without access token: the revoke is
\* skipped and deleteTokens() starts.
RevokeSkipped(c) ==
  /\ cpc[c] = "revokeGetTokens"
  /\ IF getTokens = <<>> THEN TRUE ELSE getTokens[1].access_token = 0
  /\ cpc' = [cpc EXCEPT ![c] = "deleteTokens"]
  /\ result' = [result EXCEPT ![c] = [kind |-> "revokeSkipped", token |-> 0]]
  /\ UNCHANGED <<serverVars, storeIoVars, detailVars, now, keychainUp, storeVars, issued, tokens, flows, flowStart>>

\* revokeToken() resolves.
RevokeTokenOk(c) ==
  /\ cpc[c] = "revokeToken"
  /\ cpc' = [cpc EXCEPT ![c] = "deleteTokens"]
  /\ result' = [result EXCEPT ![c] = [kind |-> "revoked", token |-> tokens[c].access_token]]
  /\ tokens' = [tokens EXCEPT ![c] = NoTokens]
  /\ UNCHANGED <<serverVars, storeIoVars, detailVars, now, keychainUp, storeVars, issued, flows, flowStart>>

\* Mutant: the failed revoke is not caught and revokeTokens() throws.
RevokeTokenFailed_raises(c) ==
  /\ cpc[c] = "revokeToken"
  /\ cpc' = [cpc EXCEPT ![c] = "threw"]
  /\ result' = [result EXCEPT ![c] = Threw("RevokeFailed")]
  /\ tokens' = [tokens EXCEPT ![c] = NoTokens]
  /\ UNCHANGED <<serverVars, storeIoVars, detailVars, now, keychainUp, storeVars, issued, flows, flowStart>>

\* revokeToken() rejects: the error is logged with console.warn and dropped.
RevokeTokenFailed(c) ==
  /\ cpc[c] = "revokeToken"
  /\ cpc' = [cpc EXCEPT ![c] = "deleteTokens"]
  /\ result' = [result EXCEPT ![c] = [kind |-> "revokeFailed", token |-> tokens[c].access_token]]
  /\ tokens' = [tokens EXCEPT ![c] = NoTokens]
  /\ UNCHANGED <<serverVars, storeIoVars, detailVars, now, keychainUp, storeVars, issued, flows, flowStart>>

\* deleteTokens(): the file is removed (when it exists); deleteFromKeychain is awaited next.
DeleteTokensFile(c) ==
  /\ cpc[c] = "deleteTokens"
  /\ removeTokenFile
  /\ cpc' = [cpc EXCEPT ![c] = "deleteFromKeychain"]
  /\ UNCHANGED <<serverVars, storeIoVars, detailVars, now, keychainUp, keychainEntry, issued, tokens, result, flows, flowStart>>

\* deleteTokens(): fs.remove fails, 'Token deletion failed' leaves revokeTokens().
DeleteTokensFailed(c) ==
  /\ cpc[c] = "deleteTokens"
  /\ tokenFile # <<>>
  /\ cpc' = [cpc EXCEPT ![c] = "threw"]
  /\ result' = [result EXCEPT ![c] = Threw("TokenDeletionFailed")]
  /\ UNCHANGED <<serverVars, storeIoVars, detailVars, now, keychainUp, storeVars, issued, tokens, flows, flowStart>>

\* deleteFromKeychain() resolves; deleteTokens() and revokeTokens() return.
DeleteTokensKeychain(c) ==
  /\ cpc[c] = "deleteFromKeychain"
  /\ deleteFromKeychain
  /\ cpc' = [cpc EXCEPT ![c] = "returned"]
  /\ UNCHANGED <<serverVars, storeIoVars, detailVars, now, keychainUp, tokenFile, issued, tokens, result, flows, flowStart>>

revokeTokens(c) ==
  \/ RevokeCall(c)
  \/ RevokeAttempt(c)
  \/ RevokeSkipped(c)
  \/ RevokeTokenOk(c)
  \/ RevokeTokenFailed(c)
  \/ DeleteTokensFile(c)
  \/ DeleteTokensFailed(c)
  \/ DeleteTokensKeychain(c)

\* isAuthenticated() is called; it suspends in tokenManager.getTokens().
IsAuthenticatedCall(c) ==
  /\ cpc[c] = "idle"
  /\ cpc' = [cpc EXCEPT ![c] = "isAuthenticated"]
  /\ UNCHANGED <<serverVars, storeIoVars, detailVars, now, keychainUp, storeVars, issued, tokens, result, flows, flowStart>>

\* Mutant: a credential inside the buffer is refreshed by the check.
IsAuthenticatedReturn_refreshes(c) ==
  /\ cpc[c] = "isAuthenticated"
  /\ IF getTokens # <<>> /\ isTokenExpired(getTokens[1], now) /\ getTokens[1].refresh_token # 0
     THEN /\ cpc' = [cpc EXCEPT ![c] = "refreshing"]
          /\ tokens' = [tokens EXCEPT ![c] = getTokens[1]]
          /\ UNCHANGED result
     ELSE /\ cpc' = [cpc EXCEPT ![c] = "returned"]
          /\ result' = [result EXCEPT ![c] = Returned(IF isAuthenticated THEN "true" ELSE "false", 0)]
          /\ UNCHANGED tokens
  /\ UNCHANGED <<serverVars, storeIoVars, detailVars, now, keychainUp, storeVars, issued, flows, flowStart>>

\* getTokens() resolves and isAuthenticated() returns.
IsAuthenticatedReturn(c) ==
  /\ cpc[c] = "isAuthenticated"
  /\ cpc' = [cpc EXCEPT ![c] = "returned"]
  /\ result' = [result EXCEPT ![c] = Returned(IF isAuthenticated THEN "true" ELSE "false", 0)]
  /\ UNCHANGED <<serverVars, storeIoVars, detailVars, now, keychainUp, storeVars, issued, tokens, flows, flowStart>>

\* The credential manager with all of its entry points: getValidAccessToken(),
\* revokeTokens() and isAuthenticated(), called concurrently, on a machine whose
\* keychain either works throughout or not at all.
NextSession ==
  \/ \E c \in Callers : Call(c) \/ getValidAccessToken(c)
  \/ \E c \in Callers : revokeTokens(c)
  \/ \E c \in Callers : IsAuthenticatedCall(c) \/ IsAuthenticatedReturn(c)
  \/ Tick

SpecSession == Init /\ [][NextSession]_vars

\* ---------------------------------------------------------------- authorize(), in detail
\* The callback server, its 5-minute timer, the browser and the promise of
\* startCallbackServer(), each on its own. authorize() awaits
\* Promise.all([startCallbackServer(), open(authUrl)]): it goes on when the promise
\* carries a code and the browser is open, and throws with the first rejection.

\* Requests without code and without error the callback server answers in one flow.
MaxInvalid == 1

\* Promise.all is still pending.
Awaiting(c) == cpc[c] = "awaitCallback"

\* getTokens() gave null: authorize() builds the consent URL; startCallbackServer()
\* creates the server, calls listen(port) and arms the timer; then open(authUrl)
\* is called. The port is free.
AuthorizeStart(c) ==
  /\ cpc[c] = "getTokens"
  /\ getTokens = <<>>
  /\ flows[c] < MaxFlows
  /\ \A d \in Callers : ~flow[d].listening
  /\ flows' = [flows EXCEPT ![c] = @ + 1]
  /\ flowStart' = [flowStart EXCEPT ![c] = now]
  /\ flow' = [flow EXCEPT ![c] = [listening |-> TRUE, timer |-> TRUE, browser |-> "opening",
                                   promise |-> "pending", invalid |-> 0]]
  /\ cpc' = [cpc EXCEPT ![c] = "awaitCallback"]
  /\ UNCHANGED <<now, serverVars, storeIoVars, usersVars, startupVars, keychainUp, storeVars, issued, tokens, result>>

\* The same while another callback server holds the port: listen() emits 'error'
\* (EADDRINUSE), the server has no 'error' listener, and the uncaught exception
\* ends the process with all its servers and timers.
ListenFailed(c) ==
  /\ cpc[c] = "getTokens"
  /\ getTokens = <<>>
  /\ flows[c] < MaxFlows
  /\ \E d \in Callers : flow[d].listening
  /\ flows' = [flows EXCEPT ![c] = @ + 1]
  /\ flow' = [d \in Callers |-> [flow[d] EXCEPT !.listening = FALSE, !.timer = FALSE, !.invalid = 0,
                                                  !.browser = IF @ = "opening" THEN "none" ELSE @]]
  /\ cpc' = [d \in Callers |-> "exited"]
  /\ process' = "exited"
  /\ UNCHANGED <<now, serverVars, storeIoVars, usersVars, env, teardown, toolsIo, initialized, validation, keychainUp, storeVars, issued, tokens, result, flowStart>>

\* Mutant: once the browser is open the flow goes on to the exchange, code or not.
BrowserOpened_eager(c) ==
  /\ flow[c].browser = "opening"
  /\ flow' = [flow EXCEPT ![c].browser = "opened"]
  /\ cpc' = IF Awaiting(c) THEN [cpc EXCEPT ![c] = "exchanging"] ELSE cpc
  /\ UNCHANGED <<now, serverVars, storeIoVars, usersVars, startupVars, keychainUp, storeVars, issued, tokens, result, flows, flowStart>>

\* open(authUrl) resolves: the browser shows the consent page. Promise.all
\* resolves when the code is there already.
BrowserOpened(c) ==
  /\ flow[c].browser = "opening"
  /\ flow' = [flow EXCEPT ![c].browser = "opened"]
  /\ cpc' = IF Awaiting(c) /\ flow[c].promise = "code"
            THEN [cpc EXCEPT ![c] = "exchanging"]
            ELSE cpc
  /\ UNCHANGED <<now, serverVars, storeIoVars, usersVars, startupVars, keychainUp, storeVars, issued, tokens, result, flows, flowStart>>

\* open(authUrl) rejects: Promise.all rejects and authorize() throws; nothing
\* closes the callback server or clears the timer.
BrowserFailed(c) ==
  /\ flow[c].browser = "opening"
  /\ flow' = [flow EXCEPT ![c].browser = "failed"]
  /\ IF Awaiting(c)
     THEN /\ cpc' = [cpc EXCEPT ![c] = "threw"]
          /\ result' = [result EXCEPT ![c] = Threw("BrowserOpenFailed")]
     ELSE UNCHANGED <<cpc, result>>
  /\ UNCHANGED <<now, serverVars, storeIoVars, usersVars, startupVars, keychainUp, storeVars, issued, tokens, flows, flowStart>>

\* The server receives ?code=...: 200, server.close(), resolve(code).
CallbackWithCode(c) ==
  /\ flow[c].listening
  /\ now <= flowStart[c] + authTimeout
  /\ flow' = [flow EXCEPT ![c].listening = FALSE, ![c].invalid = 0,
                          ![c].promise = IF @ = "pending" THEN "code" ELSE @]
  /\ cpc' = IF Awaiting(c) /\ flow[c].promise = "pending" /\ flow[c].browser = "opened"
            THEN [cpc EXCEPT ![c] = "exchanging"]
            ELSE cpc
  /\ UNCHANGED <<now, serverVars, storeIoVars, usersVars, startupVars, keychainUp, storeVars, issued, tokens, result, flows, flowStart>>

\* The server receives ?error=...: 400, server.close(), reject('OAuth
\* authorization failed').
CallbackWithError(c) ==
  /\ flow[c].listening
  /\ now <= flowStart[c] + authTimeout
  /\ flow' = [flow EXCEPT ![c].listening = FALSE, ![c].invalid = 0,
                          ![c].promise = IF @ = "pending" THEN "error" ELSE @]
  /\ IF Awaiting(c) /\ flow[c].promise = "pending"
     THEN /\ cpc' = [cpc EXCEPT ![c] = "threw"]
          /\ result' = [result EXCEPT ![c] = Threw("AuthorizationFailed")]
     ELSE UNCHANGED <<cpc, result>>
  /\ UNCHANGED <<now, serverVars, storeIoVars, usersVars, startupVars, keychainUp, storeVars, issued, tokens, flows, flowStart>>

\* The server receives a request with neither code nor error: 400 'Invalid
\* callback request', and it keeps listening.
CallbackInvalid(c) ==
  /\ flow[c].listening
  /\ now <= flowStart[c] + authTimeout
  /\ flow[c].invalid < MaxInvalid
  /\ flow' = [flow EXCEPT ![c].invalid = @ + 1]
  /\ UNCHANGED <<now, serverVars, storeIoVars, usersVars, startupVars, authVars>>

\* Mutant: the timer rejects the flow whatever the promise's state.
TimerFired_overrides(c) ==
  /\ flow[c].timer
  /\ now >= flowStart[c] + authTimeout
  /\ flow' = [flow EXCEPT ![c].timer = FALSE, ![c].listening = FALSE, ![c].invalid = 0, ![c].promise = "timeout"]
  /\ cpc' = [cpc EXCEPT ![c] = "threw"]
  /\ result' = [result EXCEPT ![c] = Threw("AuthorizationTimeout")]
  /\ UNCHANGED <<now, serverVars, storeIoVars, usersVars, startupVars, keychainUp, storeVars, issued, tokens, flows, flowStart>>

\* The 5-minute timer fires: server.close(), reject('OAuth authorization
\* timeout'); rejecting a settled promise does nothing.
TimerFired(c) ==
  /\ flow[c].timer
  /\ now >= flowStart[c] + authTimeout
  /\ flow' = [flow EXCEPT ![c].timer = FALSE, ![c].listening = FALSE, ![c].invalid = 0,
                          ![c].promise = IF @ = "pending" THEN "timeout" ELSE @]
  /\ IF Awaiting(c) /\ flow[c].promise = "pending"
     THEN /\ cpc' = [cpc EXCEPT ![c] = "threw"]
          /\ result' = [result EXCEPT ![c] = Threw("AuthorizationTimeout")]
     ELSE UNCHANGED <<cpc, result>>
  /\ UNCHANGED <<now, serverVars, storeIoVars, usersVars, startupVars, keychainUp, storeVars, issued, tokens, flows, flowStart>>

authorize(c) ==
  \/ AuthorizeStart(c)
  \/ ListenFailed(c)
  \/ BrowserOpened(c)
  \/ BrowserFailed(c)
  \/ CallbackWithCode(c)
  \/ CallbackWithError(c)
  \/ CallbackInvalid(c)
  \/ TimerFired(c)
  \/ ExchangeOk(c)
  \/ ExchangeFailed(c)
  \/ StoreAuthorizedOk(c)
  \/ StoreAuthorizedFailed(c)

\* What getValidAccessToken() does with the credential it finds.
useStored(c) ==
  \/ GetTokensExpiredNoRefreshToken(c)
  \/ GetTokensExpiredRefresh(c)
  \/ GetTokensValidNoAccessToken(c)
  \/ GetTokensValid(c)
  \/ RefreshAccessTokenOk(c)
  \/ RefreshAccessTokenRejected(c)
  \/ StoreRefreshedOk(c)
  \/ StoreRefreshedFailed(c)

\* Concurrent getValidAccessToken() calls on an empty store, until the process ends.
NextFlow ==
  \/ \E c \in Callers : Call(c) \/ authorize(c) \/ useStored(c)
  \/ Tick

\* Nothing is stored, nobody has called yet; the keychain is not available and
\* credentials go to the encrypted file.
InitAuthorize ==
  /\ now = 0
  /\ keychainUp = FALSE
  /\ tokenFile = <<>>
  /\ keychainEntry = <<>>
  /\ InitCallers
  /\ InitServer
  /\ InitStoreIo
  /\ InitDetail
  /\ transportFlaky = FALSE

SpecFlow == InitAuthorize /\ [][NextFlow]_vars

\* ---------------------------------------------------------------- refresh only
\* A credential is in the store, in the keychain or in the file.
InitRefresh ==
  /\ now = 0
  /\ keychainUp \in BOOLEAN
  /\ \E t \in StoredBefore :
       IF keychainUp
       THEN /\ tokenFile = <<KeychainReference>>
            /\ keychainEntry = <<t>>
       ELSE /\ tokenFile = <<FileEnvelope(t)>>
            /\ keychainEntry = <<>>
  /\ InitCallers
  /\ InitServer
  /\ InitStoreIo
  /\ InitDetail
  /\ transportFlaky = FALSE

\* getValidAccessToken() calls over time on a store that is never emptied.
NextRefresh ==
  \/ \E c \in Callers : Call(c) \/ useStored(c)
  \/ Tick

SpecRefresh == InitRefresh /\ [][NextRefresh]_vars

\* ---------------------------------------------------------------- TokenManager, in detail
\* The token file as storeTokens writes it and getTokens reads it: the JSON text,
\* the AES-256-GCM envelope with its iv and auth tag, the keychain password.
Fields == {"access_token", "refresh_token", "expiry_date", "scope", "token_type"}

\* A field is absent ("undefined"), null, or carries a value.
FieldValues == {"undefined", "null", "value"}

\* OAuth2Tokens: access_token is a string; the optional fields the
\* client consults (refresh_token, expiry_date) may be absent or null.
Credentials ==
  {t \in [Fields -> FieldValues] :
     t["access_token"] = "value" /\ t["scope"] = "value" /\ t["token_type"] = "value"}

\* JSON.stringify(t): undefined fields are dropped, null is kept.
stringify(t) == [f \in {g \in Fields : t[g] # "undefined"} |-> t[f]]

\* JSON.parse(text): a field the text does not have reads as undefined.
parse(text) == [f \in Fields |-> IF f \in DOMAIN text THEN text[f] ELSE "undefined"]

\* crypto.randomBytes(16)
IVs == {1, 2}

\* pbkdf2Sync('mcp-oauth', `${hostname}-${username}`, 100000, 32, 'sha512')
getDerivedKey == [password |-> "mcp-oauth", salt |-> "hostname-username"]

\* Bytes of the auth tag cipher.getAuthTag() returns.
fullTag == 16

\* The shortest auth tag decipher.setAuthTag() accepts for GCM when
\* createDecipheriv was given no authTagLength.
shortTag == 4

\* cipher.update(text) + cipher.final(): the ciphertext of text under key and iv.
\* A bit of it may have been flipped afterwards.
Ciphertext(key, iv, text) == [key |-> key, iv |-> iv, text |-> text, flipped |-> FALSE]

\* The first `bytes` bytes of the GCM tag of ciphertext `data` under key and iv.
\* A bit of it may have been flipped afterwards.
AuthTag(key, iv, data, bytes) ==
  [key |-> key, iv |-> iv, data |-> data, bytes |-> bytes, flipped |-> FALSE]

\* Mutant: the envelope records another iv than the one the cipher was made with.
encryptTokenDataFile_otherIv(t, iv) ==
  LET data == Ciphertext(getDerivedKey, iv, stringify(t))
  IN  [type |-> "file", iv |-> 3 - iv,
       authTag |-> AuthTag(getDerivedKey, iv, data, fullTag), data |-> data]

encryptTokenDataFile(t, iv) ==
  LET data == Ciphertext(getDerivedKey, iv, stringify(t))
  IN  [type |-> "file", iv |-> iv,
       authTag |-> AuthTag(getDerivedKey, iv, data, fullTag), data |-> data]

\* decryptTokenDataFile: <<tokens>>, or <<>> when it throws. It throws on content
\* without iv/authTag/data (a keychain reference), on a tag of a length GCM does
\* not allow, and when decipher.final() finds that the tag does not authenticate
\* the ciphertext under the key and the envelope's iv.
decryptTokenDataFile(envelope) ==
  IF ~({"iv", "authTag", "data"} \subseteq DOMAIN envelope) THEN <<>>
  ELSE IF envelope.authTag.bytes \notin {shortTag, fullTag} THEN <<>>
  ELSE IF /\ envelope.authTag.key = getDerivedKey
          /\ envelope.authTag.iv = envelope.iv
          /\ envelope.authTag.data = envelope.data
          /\ ~envelope.authTag.flipped
          /\ envelope.data.key = getDerivedKey
          /\ envelope.data.iv = envelope.iv
          /\ ~envelope.data.flipped
       THEN <<parse(envelope.data.text)>>
       ELSE <<>>

\* decryptFromKeychain: throws when keytar fails or has no password.
decryptFromKeychain ==
  IF keychainUp /\ keychainEntry # <<>> THEN <<parse(keychainEntry[1])>> ELSE <<>>

\* decryptTokenData: a keychain reference is looked up in the keychain; whatever
\* throws in the try block is retried as file decryption.
decryptTokenData(content) ==
  IF content.type = "keychain"
  THEN (IF decryptFromKeychain # <<>> THEN decryptFromKeychain ELSE decryptTokenDataFile(content))
  ELSE decryptTokenDataFile(content)

\* storeTokens(t): keychain first, the encrypted envelope as the fallback.
StoreTokens(t, iv) ==
  /\ IF keychainUp
     THEN /\ keychainEntry' = <<stringify(t)>>
          /\ tokenFile' = <<KeychainReference>>
     ELSE /\ tokenFile' = <<encryptTokenDataFile(t, iv)>>
          /\ UNCHANGED keychainEntry
  /\ written' = <<[tokens |-> t, file |-> tokenFile'[1]]>>
  /\ loaded' = NotLoaded
  /\ UNCHANGED <<now, serverVars, detailVars, keychainUp, issued, cpc, tokens, result, flows, flowStart>>

\* getTokens(): null without a file and null when decryption throws.
GetTokens ==
  /\ ~loaded.done
  /\ loaded' = [done |-> TRUE,
                tokens |-> IF tokenFile = <<>> THEN <<>> ELSE decryptTokenData(tokenFile[1])]
  /\ UNCHANGED <<now, serverVars, detailVars, authVars, written>>

\* The token file holds an encrypted envelope.
HoldsEnvelope == tokenFile # <<>> /\ tokenFile[1].type = "file"

\* Somebody edits the file: a bit of the ciphertext is flipped.
TamperCiphertext ==
  /\ HoldsEnvelope
  /\ ~tokenFile[1].data.flipped
  /\ tokenFile' = <<[tokenFile[1] EXCEPT !.data.flipped = TRUE]>>
  /\ loaded' = NotLoaded
  /\ UNCHANGED <<now, serverVars, detailVars, keychainUp, keychainEntry, issued, cpc, tokens, result,
                 flows, flowStart, written>>

\* Somebody edits the file: a bit of the auth tag is flipped.
TamperAuthTag ==
  /\ HoldsEnvelope
  /\ ~tokenFile[1].authTag.flipped
  /\ tokenFile' = <<[tokenFile[1] EXCEPT !.authTag.flipped = TRUE]>>
  /\ loaded' = NotLoaded
  /\ UNCHANGED <<now, serverVars, detailVars, keychainUp, keychainEntry, issued, cpc, tokens, result,
                 flows, flowStart, written>>

\* Somebody edits the file: the auth tag is cut down to its first bytes.
TruncateAuthTag ==
  /\ HoldsEnvelope
  /\ tokenFile[1].authTag.bytes = fullTag
  /\ tokenFile' = <<[tokenFile[1] EXCEPT !.authTag.bytes = shortTag]>>
  /\ loaded' = NotLoaded
  /\ UNCHANGED <<now, serverVars, detailVars, keychainUp, keychainEntry, issued, cpc, tokens, result,
                 flows, flowStart, written>>

\* The secret store on its own: credentials are stored, the file is edited, the
\* keychain comes and goes, and the store is read back.
InitStore ==
  /\ now = 0
  /\ keychainUp \in BOOLEAN
  /\ tokenFile = <<>>
  /\ keychainEntry = <<>>
  /\ InitCallers
  /\ InitServer
  /\ InitStoreIo
  /\ InitDetail
  /\ transportFlaky = FALSE

NextStore ==
  \/ \E t \in Credentials, iv \in IVs : StoreTokens(t, iv)
  \/ GetTokens
  \/ TamperCiphertext
  \/ TamperAuthTag
  \/ TruncateAuthTag
  \/ KeychainChange

SpecStore == InitStore /\ [][NextStore]_vars

\* ---------------------------------------------------------------- TokenManager, per user
\* storeTokens / getTokens / deleteTokens called with a user id: one file per
\* user, and the keychain passwords the files refer to.

\* TokenManager calls made with a user id.
MaxOps == 3

\* Credentials stored for users (told apart by their access token).
UserCredentials == {OAuth2Tokens(1, 0, 0), OAuth2Tokens(2, 0, 0)}

\* encryptWithKeychain: accountName = `${this.provider}-default`, whoever the user is.
encryptWithKeychainAccount == "default"

\* deleteFromKeychain(userId): accountName = `${this.provider}-${userId}`.
deleteFromKeychainAccount(userId) == userId

\* The reference encryptWithKeychain returns and storeTokens writes to the file.
KeychainReferenceTo(account) == [type |-> "keychain", data |-> <<>>, account |-> account]

\* getTokens(userId): <<>> is null. A reference is looked up under reference.account;
\* a failing lookup ends, through decryptTokenDataFile, in the catch that returns null.
getTokensOf(userId) ==
  IF files[userId] = <<>> THEN <<>>
  ELSE IF files[userId][1].type = "keychain"
       THEN (IF keychainUp THEN keychain[files[userId][1].account] ELSE <<>>)
       ELSE files[userId][1].data

Did(name, userId, threw) == [n |-> op.n + 1, name |-> name, user |-> userId, threw |-> threw]

\* storeTokens(tokens, userId)
StoreTokensFor(t, userId) ==
  /\ op.n < MaxOps
  /\ IF keychainUp
     THEN /\ keychain' = [keychain EXCEPT ![encryptWithKeychainAccount] = <<t>>]
          /\ files' = [files EXCEPT ![userId] = <<KeychainReferenceTo(encryptWithKeychainAccount)>>]
     ELSE /\ files' = [files EXCEPT ![userId] = <<FileEnvelope(t)>>]
          /\ UNCHANGED keychain
  /\ op' = Did("storeTokens", userId, FALSE)
  /\ UNCHANGED <<now, authVars, serverVars, storeIoVars, directory, flow, startupVars>>

\* deleteTokens(userId): the file is removed when it exists, then the keychain
\* password is deleted; deleteFromKeychain swallows every keychain error.
DeleteTokensFor(userId) ==
  /\ op.n < MaxOps
  /\ files' = [files EXCEPT ![userId] = <<>>]
  /\ keychain' = IF keychainUp
                 THEN [keychain EXCEPT ![deleteFromKeychainAccount(userId)] = <<>>]
                 ELSE keychain
  /\ op' = Did("deleteTokens", userId, FALSE)
  /\ UNCHANGED <<now, authVars, serverVars, storeIoVars, directory, flow, startupVars>>

\* deleteTokens(userId) when fs.remove fails: 'Token deletion failed'.
DeleteTokensForFailed(userId) ==
  /\ op.n < MaxOps
  /\ files[userId] # <<>>
  /\ op' = Did("deleteTokens", userId, TRUE)
  /\ UNCHANGED <<now, authVars, serverVars, storeIoVars, files, keychain, directory, flow, startupVars>>

NextUsers ==
  \/ \E t \in UserCredentials, userId \in Users : StoreTokensFor(t, userId)
  \/ \E userId \in Users : DeleteTokensFor(userId)
  \/ \E userId \in Users : DeleteTokensForFailed(userId)
  \/ KeychainChange

SpecUsers == InitStore /\ [][NextUsers]_vars

\* ---------------------------------------------------------------- TokenManager, token directory
\* new TokenManager(provider): the constructor calls ensureTokenDirectory() and
\* returns without waiting for it.
Construct ==
  /\ process = "serving"
  /\ directory.ensureDir = "notStarted"
  /\ directory' = [directory EXCEPT !.ensureDir = "pending"]
  /\ UNCHANGED <<now, authVars, serverVars, storeIoVars, files, keychain, op, flow, startupVars>>

\* fs.ensureDir(tokenPath, {mode: 0o700}) resolves: the directory exists.
EnsureDirDone ==
  /\ process = "serving"
  /\ directory.ensureDir = "pending"
  /\ directory' = [directory EXCEPT !.ensureDir = "done", !.exists = TRUE]
  /\ UNCHANGED <<now, authVars, serverVars, storeIoVars, files, keychain, op, flow, startupVars>>

\* fs.ensureDir rejects: ensureTokenDirectory() throws 'Token directory creation
\* failed' into a promise nobody holds; the unhandled rejection ends the process
\* or is only reported, as the runtime decides.
EnsureDirFailed ==
  /\ process = "serving"
  /\ directory.ensureDir = "pending"
  /\ ~directory.exists
  /\ directory' = [directory EXCEPT !.ensureDir = "failed"]
  /\ \E ends \in BOOLEAN : process' = IF ends THEN "exited" ELSE process
  /\ UNCHANGED <<now, authVars, serverVars, storeIoVars, files, keychain, op, flow, env, teardown, toolsIo, initialized, validation>>

\* storeTokens(tokens, userId) up to fs.writeFile: encryptTokenData has stored the
\* tokens in the keychain, or has encrypted them for the file.
StoreTokensEncrypted(t, userId) ==
  /\ process = "serving"
  /\ directory.ensureDir # "notStarted"
  /\ directory.storing = <<>>
  /\ op.n < MaxOps
  /\ directory' = [directory EXCEPT !.storing =
                     <<[user |-> userId,
                        data |-> IF keychainUp THEN KeychainReferenceTo(encryptWithKeychainAccount)
                                 ELSE FileEnvelope(t)]>>]
  /\ keychain' = IF keychainUp THEN [keychain EXCEPT ![encryptWithKeychainAccount] = <<t>>] ELSE keychain
  /\ UNCHANGED <<now, authVars, serverVars, storeIoVars, files, op, flow, startupVars>>

\* fs.writeFile(tokenFile, encryptedData, {mode: 0o600}) resolves.
StoreTokensWritten ==
  /\ process = "serving"
  /\ directory.storing # <<>>
  /\ directory.exists
  /\ files' = [files EXCEPT ![directory.storing[1].user] = <<directory.storing[1].data>>]
  /\ op' = Did("storeTokens", directory.storing[1].user, FALSE)
  /\ directory' = [directory EXCEPT !.storing = <<>>]
  /\ UNCHANGED <<now, authVars, serverVars, storeIoVars, keychain, flow, startupVars>>

\* fs.writeFile rejects with ENOENT, the directory not being there: storeTokens
\* throws 'Token storage failed'.
StoreTokensNoDirectory ==
  /\ process = "serving"
  /\ directory.storing # <<>>
  /\ ~directory.exists
  /\ op' = Did("storeTokens", directory.storing[1].user, TRUE)
  /\ directory' = [directory EXCEPT !.storing = <<>>]
  /\ UNCHANGED <<now, authVars, serverVars, storeIoVars, files, keychain, flow, startupVars>>

\* A process that has not constructed its TokenManager yet; the directory may be
\* there from an earlier run.
InitDirectory ==
  /\ now = 0
  /\ keychainUp \in BOOLEAN
  /\ tokenFile = <<>>
  /\ keychainEntry = <<>>
  /\ InitCallers
  /\ InitServer
  /\ InitStoreIo
  /\ files = [u \in Users |-> <<>>]
  /\ keychain = [a \in Users |-> <<>>]
  /\ op = NoOp
  /\ \E exists \in BOOLEAN : directory = [exists |-> exists, ensureDir |-> "notStarted", storing |-> <<>>]
  /\ InitFlow
  /\ InitServing
  /\ transportFlaky = FALSE

NextDirectory ==
  \/ Construct
  \/ EnsureDirDone
  \/ EnsureDirFailed
  \/ \E t \in UserCredentials, userId \in Users : StoreTokensEncrypted(t, userId)
  \/ StoreTokensWritten
  \/ StoreTokensNoDirectory

SpecDirectory == InitDirectory /\ [][NextDirectory]_vars

\* ---------------------------------------------------------------- claims
\* The credential the store holds, whichever backend holds it.
Persisted ==
  IF tokenFile = <<>> THEN <<>>
  ELSE IF tokenFile[1].type = "keychain" THEN keychainEntry ELSE tokenFile[1].data

\* Execution c leaves tokenManager.getTokens() in this step with a stored credential.
LooksUp(c) == cpc[c] = "getTokens" /\ cpc'[c] # "getTokens" /\ getTokens # <<>>

\* C1: single-flight refresh. A refresh request is sent in the step that reads the
\* expired credential, so a second request for the same stored credential can only
\* be sent while the first exchange (request, response, store) is still going on:
\* at no time are two refresh exchanges in progress.
C1_SingleFlightRefresh ==
  Cardinality({c \in Callers : cpc[c] \in {"refreshing", "storeRefreshed"}}) <= 1

\* C2: two concurrent calls against a credential inside the buffer (no time passes,
\* no authorization flow runs), one of which refreshed: both return the same new
\* access token, and it is the access token of the persisted credential.
C2_ConcurrentCallersSameToken ==
  ( /\ now = 0
    /\ \A c \in Callers : cpc[c] = "returned" /\ flows[c] = 0
    /\ \E c \in Callers : result[c].kind = "refreshed" )
  => /\ \A c, d \in Callers : result[c].token = result[d].token
     /\ Persisted # <<>>
     /\ \A c \in Callers : Persisted[1].access_token = result[c].token

\* C3 as stated: a lookup that finds a credential whose expiry is more than 5
\* minutes after now sends no refresh request, starts no authorization flow, leaves
\* the store unchanged and returns exactly the stored access token.
C3_AsStated ==
  [][\A c \in Callers :
       (LooksUp(c) /\ getTokens[1].expiry_date > now + 5)
       => /\ cpc'[c] = "returned"
          /\ result'[c] = Returned("stored", getTokens[1].access_token)
          /\ result'[c].token # 0
          /\ issued' = issued /\ flows' = flows /\ storeVars' = storeVars]_vars

\* C3 amended: ... and returns exactly the stored access token, or fails with 'No
\* access token available' when the stored credential has no access token.
C3_ValidTokenReturnedUnchanged ==
  [][\A c \in Callers :
       (LooksUp(c) /\ getTokens[1].expiry_date > now + 5)
       => /\ IF getTokens[1].access_token # 0
             THEN /\ cpc'[c] = "returned"
                  /\ result'[c] = Returned("stored", getTokens[1].access_token)
             ELSE /\ cpc'[c] = "threw"
                  /\ result'[c] = Threw("NoAccessToken")
          /\ issued' = issued /\ flows' = flows /\ storeVars' = storeVars]_vars

\* A call returned the access token that was in the store when the process started,
\* and no token request was ever answered.
C3_Witness ==
  \E c \in Callers : result[c] = Returned("stored", StoredAccessToken) /\ issued = 0

\* C4: a lookup that finds a credential inside the 5-minute buffer (expiry at most
\* 5 minutes after now) with no refresh token fails with AuthorizationRequired,
\* sends no refresh request, returns no token and leaves the store unchanged.
C4_ExpiredWithoutRefreshToken ==
  [][\A c \in Callers :
       (LooksUp(c) /\ getTokens[1].expiry_date <= now + 5 /\ getTokens[1].refresh_token = 0)
       => /\ cpc'[c] = "threw"
          /\ result'[c] = Threw("AuthorizationRequired")
          /\ issued' = issued /\ flows' = flows /\ storeVars' = storeVars]_vars

\* A call failed with AuthorizationRequired on a credential that has an access
\* token but no refresh token.
C4_Witness ==
  /\ \E c \in Callers : result[c] = Threw("AuthorizationRequired")
  /\ Persisted # <<>>
  /\ Persisted[1].refresh_token = 0
  /\ Persisted[1].access_token # 0

\* C5: when the authorization server rejects the refresh, the call fails with
\* TokenRefreshFailed: it returns no token, starts no authorization flow and
\* writes nothing to the store.
C5_RefreshRejectionSurfaces ==
  [][\A c \in Callers :
       (cpc[c] = "refreshing" /\ cpc'[c] \notin {"refreshing", "storeRefreshed"})
       => /\ cpc'[c] = "threw"
          /\ result'[c] = Threw("TokenRefreshFailed")
          /\ flows' = flows /\ issued' = issued /\ storeVars' = storeVars]_vars

\* A call failed with TokenRefreshFailed while the credential it tried to refresh
\* is still the stored one.
C5_Witness ==
  /\ \E c \in Callers : result[c] = Threw("TokenRefreshFailed")
  /\ Persisted # <<>>
  /\ Persisted[1].access_token = StoredAccessToken

\* C6: one call of getValidAccessToken() starts at most one authorization flow.
C6_AtMostOneFlowPerCall == \A c \in Callers : flows[c] <= 1

\* Cancellation outcomes the client can receive.
CancelledOutcomes == {"isError: Request was cancelled", "error: Request was cancelled"}

\* The signal of invocation i was aborted by a notifications/cancelled.
Cancelled(i) == controller[i].aborted /\ controller[i].reason \in Reasons

\* C7: an invocation whose signal was aborted by cancelRequest before the result
\* was produced does not return a successful tool result.
C7_NoSuccessAfterCancel ==
  \A i \in Invocations : outcome[i] = "result" => ~Cancelled(i)

\* C8: an invocation that ends unsuccessfully with its signal aborted is reported
\* as cancelled, and one that is reported as cancelled has its signal aborted.
C8_CancelledReportedAsCancelled ==
  \A i \in Invocations :
    /\ (ipc[i] = "done" /\ outcome[i] # "result" /\ Cancelled(i))
         => outcome[i] \in CancelledOutcomes
    /\ outcome[i] \in CancelledOutcomes => controller[i].aborted

\* Invocation i registered a context (its request id was free).
Registered(i) == ipc[i] # "idle" /\ outcome[i] # "error: DuplicateRequestId"

\* The registry keeps the context of invocation i.
Held(i) == request[i].id # 0 /\ registry[request[i].id] = i

\* Once the handler of an invocation has finished, the tracker no longer holds
\* the invocation's context.
ReleasedWhenDone == \A i \in Invocations : (Registered(i) /\ ipc[i] = "done") => ~Held(i)

C11_CancelUnknownId ==
  [][\A id \in RequestIds, reason \in Reasons :
       (registry[id] = 0 /\ CancelledNotification(id, reason))
       => /\ cancelReturned' = "false"
          /\ registry' = registry
          /\ controller' = controller]_vars

\* cancelRequest returned false for the id of a finished invocation while another
\* invocation is running with its context held and its signal not aborted.
C11_Witness ==
  /\ cancelReturned = "false"
  /\ \E i, j \in Invocations :
       /\ ipc[i] = "done" /\ Registered(i) /\ registry[request[i].id] = 0
       /\ ipc[j] # "done" /\ Held(j) /\ ~controller[j].aborted

\* C12: a tools/call whose id is already registered fails with DuplicateRequestId
\* and leaves the registered context in place, its signal untouched.
C12_DuplicateRegistration ==
  [][\A i \in Invocations :
       (ipc[i] = "idle" /\ ipc'[i] # "idle" /\ registry[request'[i].id] # 0)
       => /\ ipc'[i] = "done"
          /\ outcome'[i] = "error: DuplicateRequestId"
          /\ registry' = registry
          /\ controller' = controller
          /\ registeredAt' = registeredAt]_vars

\* An invocation failed with DuplicateRequestId while the invocation that owns the
\* id is still running, registered and not cancelled.
C12_Witness ==
  \E i, j \in Invocations :
    /\ outcome[i] = "error: DuplicateRequestId"
    /\ request[j].id = request[i].id
    /\ ipc[j] # "done" /\ Held(j) /\ ~controller[j].aborted

C14_DeliveryFailureHarmless ==
  [][\A i \in Invocations :
       ipc'[i] # ipc[i]
       => /\ ipc[i] = "report0" => ipc'[i] = "onProgress0"
          /\ ipc[i] = "onProgress0" => ipc'[i] = "getValidAccessToken"
          /\ ipc[i] = "onProgress100" => ipc'[i] = "report100"
          /\ ipc[i] = "report100" => (ipc'[i] = "done" /\ outcome'[i] = "result")]_vars

\* An invocation returned its result although the transport rejected every one
\* of its progress events.
C14_Witness ==
  \E i \in Invocations :
    /\ lost[i] /\ progress[i] = <<>>
    /\ request[i].progressToken # 0
    /\ outcome[i] = "result"

\* The invocation is suspended in a progress report.
Reporting(i) == ipc[i] \in {"report0", "onProgress0", "onProgress100", "report100"}

\* Other invocations can take their next step while one is suspended in a report.
NotBlockedByReport ==
  \A i, j \in Invocations :
    (i # j /\ Reporting(i) /\ ipc[j] # "done") => ENABLED CallTool(j)

OneContextPerId ==
  \A id \in RequestIds :
    registry[id] # 0 => (request[registry[id]].id = id /\ ipc[registry[id]] # "idle")

\* C17: the registry keeps each context under its own request id, one per id;
\* cancelRequest(a) changes no signal of a context registered under another id;
\* the cleanup(a) at the end of a handler changes no registry entry of another id.
C17_RegistryIsolation ==
  /\ []OneContextPerId
  /\ [][\A a \in RequestIds, reason \in Reasons :
          CancelledNotification(a, reason)
          => \A i \in Invocations : request[i].id # a => controller'[i] = controller[i]]_vars
  /\ [][\A i \in Invocations :
          (ipc[i] # "done" /\ ipc'[i] = "done")
          => \A b \in RequestIds \ {request'[i].id} : registry'[b] = registry[b]]_vars

\* Two invocations ran under different ids; one was cancelled and has finished,
\* the other is still registered with its signal not aborted.
C17_Witness ==
  \E i, j \in Invocations :
    /\ request[i].id # request[j].id
    /\ ipc[i] = "done" /\ Cancelled(i)
    /\ ipc[j] # "done" /\ Held(j) /\ ~controller[j].aborted

\* C18: getTokens() yields "no credential" only when no record exists, so a call
\* starts the authorization flow only when the token file is absent; a record
\* that cannot be decrypted never counts as "not yet authorized".
C18_CorruptStoreIsNotUnauthorized ==
  [][\A c \in Callers :
       (cpc[c] = "getTokens" /\ cpc'[c] = "awaitCallback") => tokenFile = <<>>]_vars

\* What storeTokens wrote is what getTokens will read: nobody edited the file
\* since, and a credential that went to the keychain can be fetched from it.
StoreUntouched ==
  /\ written # <<>>
  /\ tokenFile = <<written[1].file>>
  /\ written[1].file.type = "keychain" => keychainUp

C20_TamperedEnvelopeRejected ==
  [][(/\ ~loaded.done /\ loaded'.done
      /\ HoldsEnvelope
      /\ written # <<>>
      /\ \/ tokenFile[1].data # written[1].file.data
         \/ tokenFile[1].authTag # written[1].file.authTag)
       => loaded'.tokens = <<>>]_vars

\* C21: one credential per user. storeTokens(c2, u2) and deleteTokens(u2) do not
\* change what getTokens(u1) returns for another user u1, whichever backend holds
\* the credentials.
C21_OneCredentialPerUser ==
  [][\A u1 \in Users :
       (op'.n # op.n /\ op'.user # u1) => getTokensOf(u1)' = getTokensOf(u1)]_vars

\* C22: deleteTokens is idempotent. Deleting for a user who has no record raises
\* no error and changes nothing (no file, and nothing any user reads back), and
\* after a deleteTokens(u) that returned, getTokens(u) is null.
C22_DeleteIdempotent ==
  /\ [][(op'.n # op.n /\ op'.name = "deleteTokens" /\ files[op'.user] = <<>>)
          => /\ ~op'.threw
             /\ files' = files
             /\ \A u \in Users : getTokensOf(u)' = getTokensOf(u)]_vars
  /\ []((op.name = "deleteTokens" /\ ~op.threw) => getTokensOf(op.user) = <<>>)

\* What revokeTokens() notes about its revoke attempt.
RevokeOutcomes == {"revoked", "revokeFailed", "revokeSkipped"}

\* C23: revocation ends with the stored credential deleted. Whether the revoke
\* at the authorization server succeeds, fails or is skipped, revokeTokens() does
\* not raise because of it, leaves the store alone until then and goes on to
\* deleteTokens(); deleteTokens() removes the credential file (or fails itself
\* with 'Token deletion failed'); and an authentication check that follows a
\* revokeTokens() that returned reports false.
C23_RevocationDeletes ==
  [][\A c \in Callers :
       /\ (cpc[c] = "revokeGetTokens" /\ cpc'[c] # "revokeGetTokens")
            => cpc'[c] \in {"revokeToken", "deleteTokens"} /\ storeVars' = storeVars
       /\ (cpc[c] = "revokeToken" /\ cpc'[c] # "revokeToken")
            => cpc'[c] = "deleteTokens" /\ storeVars' = storeVars
       /\ (cpc[c] = "deleteTokens" /\ cpc'[c] # "deleteTokens")
            => \/ cpc'[c] = "deleteFromKeychain" /\ tokenFile' = <<>>
               \/ cpc'[c] = "threw" /\ result'[c] = Threw("TokenDeletionFailed")
       /\ (cpc[c] = "deleteFromKeychain" /\ cpc'[c] # "deleteFromKeychain")
            => cpc'[c] = "returned" /\ result'[c].kind \in RevokeOutcomes
       /\ ( /\ cpc[c] = "isAuthenticated" /\ cpc'[c] # "isAuthenticated"
            /\ \E d \in Callers : cpc[d] = "returned" /\ result[d].kind \in RevokeOutcomes )
            => result'[c] = Returned("false", 0)]_vars

\* The authorization server rejected the revoke, revokeTokens() returned all the
\* same, the credential is gone and the check that followed said false.
C23_Witness ==
  \E c, d \in Callers :
    /\ cpc[d] = "returned" /\ result[d].kind = "revokeFailed"
    /\ result[d].token = StoredAccessToken
    /\ tokenFile = <<>>
    /\ cpc[c] = "returned" /\ result[c] = Returned("false", 0)

\* C24: isAuthenticated() has no side effects and reports usability exactly. It
\* never raises, sends no token request, starts no authorization flow, leaves the
\* store unchanged, and returns true exactly when the store yields a credential
\* with an access token whose expiry is more than 5 minutes after now.
C24_AuthenticationCheck ==
  [][\A c \in Callers :
       (cpc[c] = "isAuthenticated" /\ cpc'[c] # "isAuthenticated")
       => /\ cpc'[c] = "returned"
          /\ result'[c] =
               Returned(IF /\ getTokens # <<>>
                           /\ getTokens[1].access_token # 0
                           /\ getTokens[1].expiry_date > now + 5
                        THEN "true" ELSE "false", 0)
          /\ issued' = issued /\ flows' = flows /\ storeVars' = storeVars
          /\ \A d \in Callers \ {c} : cpc'[d] = cpc[d]]_vars

\* One check said true on a stored credential that has a refresh token, and a
\* later check on the same credential, by then inside the buffer, said false:
\* nothing was refreshed.
C24_Witness ==
  /\ result[1] = Returned("true", 0)
  /\ result[2] = Returned("false", 0)
  /\ Persisted # <<>>
  /\ Persisted[1].refresh_token # 0
  /\ issued = 0

\* Execution c enters state st of authorize() in this step.
Enters(c, st) == cpc[c] # st /\ cpc'[c] = st

\* The callback server of execution c starts listening in this step.
ListenerStarts(c) == ~flow[c].listening /\ flow'[c].listening

\* The code exchange starts only in a flow that waits for its callback, whose
\* listener received a code; nothing is persisted except by a storeTokens() that
\* resolves, which is the last step of authorize() (or of a refresh).
ExchangeAndPersistence ==
  /\ \A c \in Callers :
       /\ Enters(c, "exchanging") => cpc[c] = "awaitCallback" /\ flow'[c].promise = "code"
       /\ Enters(c, "storeAuthorized") => cpc[c] = "exchanging"
  /\ storeVars' # storeVars =>
       \E c \in Callers : \/ cpc[c] = "storeAuthorized" /\ cpc'[c] = "getTokens"
                          \/ cpc[c] = "storeRefreshed"

\* C25 as stated: the listener is started only once the browser has been opened on
\* the consent URL; the exchange follows a code callback; a credential is persisted
\* only on the transition to Authorized.
C25_AsStated ==
  [][/\ \A c \in Callers : ListenerStarts(c) => flow[c].browser = "opened"
     /\ ExchangeAndPersistence]_vars

\* C25: the flow goes Idle, AwaitingCallback (the listener is started first and the
\* browser is being opened in the same step), ExchangingCode (only when the code
\* callback was received and the browser was opened), Authorized; the exchange
\* follows a code callback; a credential is persisted only on the transition to
\* Authorized.
C25_FlowOrder ==
  [][/\ \A c \in Callers :
          /\ ListenerStarts(c) <=> Enters(c, "awaitCallback")
          /\ Enters(c, "awaitCallback") => cpc[c] = "getTokens" /\ flow'[c].browser = "opening"
          /\ Enters(c, "exchanging") => flow'[c].browser = "opened"
     /\ ExchangeAndPersistence]_vars

\* A flow received its code with the browser open, exchanged it, and its
\* credential is in the store.
C25_Witness ==
  \E c \in Callers :
    /\ cpc[c] = "getTokens"
    /\ flow[c].promise = "code"
    /\ flow[c].browser = "opened"
    /\ Persisted # <<>>

\* A request with neither code nor error is answered and the wait goes on; a
\* settled callback promise keeps its outcome until a new flow starts.
FirstCallbackDecides ==
  \A c \in Callers :
    /\ flow'[c].invalid > flow[c].invalid =>
         flow'[c].listening /\ flow'[c].promise = "pending" /\ cpc' = cpc /\ result' = result
    /\ (flow[c].promise \in {"code", "error", "timeout"} /\ ~ListenerStarts(c)) =>
         flow'[c].promise = flow[c].promise

\* C26: the callback listener takes one code or error callback and terminates: an
\* invalid request does not end the wait, the first code/error callback decides,
\* no later callback changes the outcome, and once the flow has ended (code, error
\* callback, timeout, failure to open the browser) the listener is not listening.
C26_ListenerSelfTerminates ==
  /\ [](\A c \in Callers : flow[c].listening => Awaiting(c))
  /\ [][FirstCallbackDecides]_vars

\* The 5-minute timer of execution c's callback server fires in this step.
TimerFires(c) == flow[c].timer /\ ~flow'[c].timer /\ cpc'[c] # "exited"

\* C27: the timer fires no earlier than 5 minutes after the listener started. When
\* the flow still waits and no code or error callback has arrived, the flow fails
\* with AuthorizationTimeout, the listener is closed and the store is untouched;
\* when a callback had arrived, the firing changes neither any outcome nor the
\* stored credential.
C27_AuthorizationTimeout ==
  [][\A c \in Callers : TimerFires(c) =>
       /\ now >= flowStart[c] + authTimeout
       /\ ~flow'[c].listening
       /\ storeVars' = storeVars
       /\ (Awaiting(c) /\ flow[c].promise = "pending") =>
            cpc'[c] = "threw" /\ result'[c] = Threw("AuthorizationTimeout")
       /\ flow[c].promise # "pending" =>
            cpc' = cpc /\ result' = result /\ flow'[c].promise = flow[c].promise]_vars

\* One flow timed out; the timer of another, whose code had arrived and whose
\* credential was stored, fired later.
C27_Witness ==
  \E c, d \in Callers :
    /\ result[c] = Threw("AuthorizationTimeout")
    /\ ~flow[c].listening
    /\ flow[d].promise = "code"
    /\ ~flow[d].timer
    /\ Persisted # <<>>

\* C28: a process started without GOOGLE_CLIENT_ID or GOOGLE_CLIENT_SECRET never
\* serves tool calls, and no tool call fails with the missing-configuration error.
C28_MissingConfigurationIsFatal ==
  /\ ~Configured => process # "serving"
  /\ \A i \in Invocations : outcome[i] # MissingConfiguration

\* C29: an invocation whose request was cancelled by a notifications/cancelled
\* while it was in flight gets no response, neither a result nor an error.
C29_NoResponseAfterCancel ==
  \A i \in Invocations : Cancelled(i) => outcome[i] = "none"

\* Invocation i goes on to makeAuthenticatedRequest in this step and awaits
\* getValidAccessToken(), which on the empty store of the lifecycle specification
\* starts an authorization flow.
StartsTokenAcquisition(i) == ipc[i] # "getValidAccessToken" /\ ipc'[i] = "getValidAccessToken"

\* C30: once cancelRequest has aborted the signal of an in-flight invocation, the
\* invocation starts no token acquisition (refresh or authorization flow) and
\* sends no API request, and when it has ended its context is released.
C30_CancelStopsProcessing ==
  /\ [][\A i \in Invocations : Cancelled(i) =>
          /\ ~StartsTokenAcquisition(i)
          /\ ipc'[i] = "request" => ipc[i] = "request"]_vars
  /\ [](\A i \in Invocations : (Cancelled(i) /\ ipc[i] = "done") => registry[request[i].id] # i)

\* requestTracker.shutdown() is called in this step.
TrackerShutsDown == Len(teardown') > Len(teardown) /\ teardown'[Len(teardown) + 1] = "requestTracker"

\* C31: shutdown() of the request tracker aborts every outstanding context and
\* leaves the registry empty; in the teardown the request tracker is shut down
\* before the progress reporter, the progress reporter before the log shipper,
\* and the process exits only after the log shipper.
C31_TeardownOrder ==
  /\ [][TrackerShutsDown =>
          /\ registry' = [id \in RequestIds |-> 0]
          /\ \A i \in Invocations : (\E id \in RequestIds : registry[id] = i) => controller'[i].aborted]_vars
  /\ [](/\ \A k \in DOMAIN teardown :
             /\ teardown[k] = "progressReporter" => k > 1 /\ teardown[k - 1] = "requestTracker"
             /\ teardown[k] = "logShipper" => \E j \in 1..(k - 1) : teardown[j] = "progressReporter"
             /\ teardown[k] = "exit" => k > 1 /\ teardown[k - 1] = "logShipper"
        /\ process = "exited" => teardown # <<>> /\ teardown[Len(teardown)] = "exit")

\* The process has exited after a shutdown that cancelled an outstanding context.
C31_Witness ==
  /\ process = "exited"
  /\ \E i \in Invocations : controller[i].aborted /\ controller[i].reason = "shutdown"

\* Invocation i is a tools/call, accepted in this step under an id that is not in
\* use, for a name that no adapter handles.
UnknownCall(i) ==
  /\ ipc[i] = "idle"
  /\ ipc'[i] # "idle"
  /\ ~canHandle(request'[i].name)
  /\ registry[request'[i].id] = 0

\* C32: a tools/call for a name no adapter handles is answered in the same step
\* with the MethodNotFound error 'Unknown tool'; it acquires no token, sends no
\* API request, and its context is released.
C32_UnknownTool ==
  /\ [][\A i \in Invocations : UnknownCall(i) =>
          /\ ipc'[i] = "done"
          /\ outcome'[i] = "error: Unknown tool"
          /\ registry'[request'[i].id] = 0
          /\ authVars' = authVars
          /\ progress' = progress]_vars
  /\ [](\A i \in Invocations :
          (ipc[i] \in {"getValidAccessToken", "request"} \/ outcome[i] = "result") => canHandle(request[i].name))

\* An unknown tool was called and answered while another invocation is in flight.
C32_Witness ==
  \E i, j \in Invocations :
    /\ outcome[i] = "error: Unknown tool"
    /\ ipc[j] = "request"
    /\ \A id \in RequestIds : registry[id] # i

\* The adapters whose canHandle accepts name.
Accepting(name) == {k \in DOMAIN Adapters : name \in supportedTools[Adapters[k]]}

\* C33: tools/list answers with the definitions of the four adapters; every
\* advertised name is accepted by canHandle of exactly one adapter and has a case
\* in that adapter's executeTool; no adapter accepts a name that is not advertised;
\* so a called name reaches a case exactly when it is advertised.
C33_AdvertisedIsDispatchable ==
  /\ Advertised = UNION {{toolDefinitions[Adapters[k]][j] : j \in DOMAIN toolDefinitions[Adapters[k]]} : k \in DOMAIN Adapters}
  /\ toolsIo.listed # <<>> => {toolsIo.listed[k] : k \in DOMAIN toolsIo.listed} = Advertised
  /\ \A name \in Advertised :
       /\ Cardinality(Accepting(name)) = 1
       /\ \A k \in Accepting(name) : name \in executeCases[Adapters[k]]
  /\ \A k \in DOMAIN Adapters : supportedTools[Adapters[k]] \subseteq Advertised
  /\ toolsIo.name # "" =>
       /\ toolsIo.hasCase <=> toolsIo.name \in Advertised
       /\ toolsIo.adapter = "none" <=> toolsIo.name \notin Advertised

\* The tool list was answered and a contacts tool was dispatched to its adapter.
C33_Witness ==
  /\ toolsIo.listed # <<>>
  /\ toolsIo.adapter = "google-contacts"
  /\ toolsIo.hasCase

\* The messages validateConfig returned.
ReportedErrors == {validation.result.errors[k] : k \in DOMAIN validation.result.errors}

\* C34: validateConfig answers isValid exactly when it reports no error; with
\* GOOGLE_OAUTH_CREDENTIALS unset it reports an error that names the variable,
\* whatever the configuration; with log shipping disabled it reports none of the
\* log-shipping errors.
C34_ValidateConfig ==
  validation.done =>
    /\ validation.result.isValid <=> validation.result.errors = <<>>
    /\ validation.credentials = "unset" =>
         \E k \in DOMAIN CredentialErrors : CredentialErrors[k] \in ReportedErrors
    /\ ~validation.config.enabled => ReportedErrors \cap LogShippingErrors = {}

\* A configuration with log shipping disabled, no endpoint and a batch size of 0
\* was validated without GOOGLE_OAUTH_CREDENTIALS: only the credential errors
\* were reported.
C34_Witness ==
  /\ validation.done
  /\ ~validation.config.enabled
  /\ validation.config.endpoint = ""
  /\ validation.config.batchSize = 0
  /\ validation.credentials = "unset"
  /\ ~validation.result.isValid
  /\ Len(validation.result.errors) = Len(CredentialErrors)

\* Executions whose storeTokens() call (encryption, then fs.writeFile of the
\* credential file) is in progress.
Storing == {c \in Callers : cpc[c] \in {"storeRefreshed", "storeAuthorized"}}

\* C35: single-writer credential file. At no time are two storeTokens() calls in
\* progress together, whatever the interleaving of concurrent
\* getValidAccessToken() calls.
C35_SingleWriter == Cardinality(Storing) <= 1

\* Execution c's refresh succeeds in this step: storeTokens(credentials) resolved
\* and the new access token is returned.
RefreshSucceeds(c) == cpc[c] = "storeRefreshed" /\ cpc'[c] = "returned"

C37_DirectoryBeforeFile ==
  (op.name = "storeTokens" /\ op.threw) => directory.ensureDir = "failed"

\* C38: revocation is final under concurrency. Once a revokeTokens() has
\* returned, and no authorization flow was ever started, no credential is stored:
\* getTokens() gives null and isAuthenticated() is false, whatever refresh was
\* under way when the revocation started.
C38_RevocationIsFinal ==
  ( /\ \E d \in Callers : cpc[d] = "returned" /\ result[d].kind \in RevokeOutcomes
    /\ \A c \in Callers : flows[c] = 0 )
  => getTokens = <<>> /\ ~isAuthenticated

\* An authorization flow of caller c is under way: authorize() has started and
\* has neither returned nor thrown.
ActiveFlow(c) == cpc[c] \in {"awaitCallback", "exchanging", "storeAuthorized"}

\* C39: at most one interactive authorization flow is active at a time. With
\* concurrent getValidAccessToken() calls on an empty store, at most one callback
\* listener is bound to the redirect port, at most one caller is inside
\* authorize(), and no caller is left without a token or a failure.
C39_SingleFlow ==
  /\ Cardinality({c \in Callers : flow[c].listening}) <= 1
  /\ Cardinality({c \in Callers : ActiveFlow(c)}) <= 1
  /\ \A c \in Callers : cpc[c] = "exited" => result[c] # NoResult

\* Invocation i's executeTool() starts in this step with its context cancelled.
StartsCancelled(i) == ipc[i] = "registered" /\ controller[i].aborted /\ ipc'[i] # "registered"

====
